---- MODULE Spec2Model ----
(***************************************************************************)
(* A model of KotoSub's segment pipeline: TranslationService.translate and *)
(* quality_check (thread pool, retry loop, lock for a local model),        *)
(* SubtitleGenerator.refine_segments / generate_srt and                    *)
(* VideoTranslatorApp.process.                                             *)
(*                                                                         *)
(* Representation.  A Python str is a sequence of one-character strings;   *)
(* a dict is a function whose DOMAIN is the set of its keys (a missing key *)
(* is a key outside the DOMAIN); None is the value NoneVal; a float time   *)
(* is an exact rational [n |-> numerator, d |-> denominator] (rounding of  *)
(* binary floating point is not modelled).  Python index i is index i+1.   *)
(***************************************************************************)
EXTENDS Integers, Sequences, FiniteSets, TLC

(***************************************************************************)
(* Strings                                                                 *)
(***************************************************************************)
UpperLetters == <<"A","B","C","D","E","F","G","H","I","J","K","L","M",
                  "N","O","P","Q","R","S","T","U","V","W","X","Y","Z">>

LowerLetters == <<"a","b","c","d","e","f","g","h","i","j","k","l","m",
                  "n","o","p","q","r","s","t","u","v","w","x","y","z">>

Digits == {"0","1","2","3","4","5","6","7","8","9"}

\* str.lower() on one character
Lower(c) ==
    IF \E k \in 1..26 : UpperLetters[k] = c
    THEN LowerLetters[CHOOSE k \in 1..26 : UpperLetters[k] = c]
    ELSE c

LowerStr(s) == [k \in 1..Len(s) |-> Lower(s[k])]

\* the regex class \s, on the characters the model uses
IsSpace(c) == c \in {" ", "\n", "\t"}

\* the regex class \w
IsWord(c) ==
    \/ \E k \in 1..26 : c = UpperLetters[k] \/ c = LowerLetters[k]
    \/ c \in Digits
    \/ c = "_"

\* s[from:] with a 1-based from
Drop(s, k) == IF k >= Len(s) THEN <<>> ELSE SubSeq(s, k + 1, Len(s))

Take(s, k) == IF k <= 0 THEN <<>> ELSE SubSeq(s, 1, IF k > Len(s) THEN Len(s) ELSE k)

\* s.startswith(p) from position pos (1-based); ci = re.IGNORECASE
MatchAt(s, pos, p, ci) ==
    /\ pos + Len(p) - 1 <= Len(s)
    /\ \A k \in 1..Len(p) :
          IF ci THEN Lower(s[pos + k - 1]) = Lower(p[k]) ELSE s[pos + k - 1] = p[k]

StartsWith(s, p) == MatchAt(s, 1, p, FALSE)

\* sub in s
Contains(s, sub) == \E pos \in 1..(Len(s) + 1) : MatchAt(s, pos, sub, FALSE)

RECURSIVE LStrip(_)
LStrip(s) == IF s # <<>> /\ IsSpace(Head(s)) THEN LStrip(Tail(s)) ELSE s

RECURSIVE RStrip(_)
RStrip(s) ==
    IF s # <<>> /\ IsSpace(s[Len(s)]) THEN RStrip(SubSeq(s, 1, Len(s) - 1)) ELSE s

\* str.strip()
Strip(s) == RStrip(LStrip(s))

\* number of leading characters of s, from position pos, that satisfy \s
RECURSIVE SpanSpace(_, _)
SpanSpace(s, pos) ==
    IF pos <= Len(s) /\ IsSpace(s[pos]) THEN 1 + SpanSpace(s, pos + 1) ELSE 0

RECURSIVE SpanWord(_, _)
SpanWord(s, pos) ==
    IF pos <= Len(s) /\ IsWord(s[pos]) THEN 1 + SpanWord(s, pos + 1) ELSE 0

\* s.split(sep) for a one-character sep: the list of pieces, empty ones kept
RECURSIVE Split(_, _)
Split(s, sep) ==
    IF \E k \in 1..Len(s) : s[k] = sep
    THEN LET k == CHOOSE k \in 1..Len(s) :
                     s[k] = sep /\ \A j \in 1..(k - 1) : s[j] # sep
         IN  <<Take(s, k - 1)>> \o Split(Drop(s, k), sep)
    ELSE <<s>>

\* sep.join(parts)
RECURSIVE Join(_, _)
Join(parts, sep) ==
    IF parts = <<>> THEN <<>>
    ELSE IF Len(parts) = 1 THEN parts[1]
    ELSE parts[1] \o sep \o Join(Tail(parts), sep)

(***************************************************************************)
(* TranslationService._clean_translation                                   *)
(***************************************************************************)
\* (Translation|Translated|Result|English|Output), in the regex's order
OutLabels == << <<"T","r","a","n","s","l","a","t","i","o","n">>,
                <<"T","r","a","n","s","l","a","t","e","d">>,
                <<"R","e","s","u","l","t">>,
                <<"E","n","g","l","i","s","h">>,
                <<"O","u","t","p","u","t">> >>

\* (Orig|Original|Src|Source), in the regex's order
SrcLabels == << <<"O","r","i","g">>,
                <<"O","r","i","g","i","n","a","l">>,
                <<"S","r","c">>,
                <<"S","o","u","r","c","e">> >>

\* the length matched at the start of s by ^(l1|l2|...): under IGNORECASE, or 0
LabelColonLen(s, labels) ==
    LET ok(k) == MatchAt(s, 1, labels[k] \o <<":">>, TRUE)
    IN  IF \E k \in 1..Len(labels) : ok(k)
        THEN Len(labels[CHOOSE k \in 1..Len(labels) :
                            ok(k) /\ \A j \in 1..(k - 1) : ~ok(j)]) + 1
        ELSE 0

\* re.sub(r"^(Translation|Translated|Result|English|Output):\s*", "", s, I|S)
SubOutLabel(s) ==
    LET n == LabelColonLen(s, OutLabels)
    IN  IF n = 0 THEN s ELSE Drop(s, n + SpanSpace(s, n + 1))

\* the lookahead (?=(Translation|...|Output|$)) at position pos of s
LookaheadAt(s, pos) ==
    \/ pos = Len(s) + 1
    \/ pos = Len(s) /\ s[pos] = "\n"
    \/ \E k \in 1..Len(OutLabels) : MatchAt(s, pos, OutLabels[k], TRUE)

\* re.sub(r"^(Orig|Original|Src|Source):\s*.*?(?=(...|$))", "", s, I|S):
\* the label, the white space after it, then lazily up to the first position
\* where the lookahead holds (backtracking into \s* when none is found later)
SubSrcBlock(s) ==
    LET n     == LabelColonLen(s, SrcLabels)
        from  == n + SpanSpace(s, n + 1) + 1
        stop  == CHOOSE p \in from..(Len(s) + 1) :
                     LookaheadAt(s, p) /\ \A q \in from..(p - 1) : ~LookaheadAt(s, q)
    IN  IF n = 0 THEN s ELSE Drop(s, stop - 1)

\* re.sub(r"^\w+:\s*", "", s)
SubAnyLabel(s) ==
    LET w == SpanWord(s, 1)
    IN  IF w > 0 /\ w + 1 <= Len(s) /\ s[w + 1] = ":"
        THEN Drop(s, w + 1 + SpanSpace(s, w + 2))
        ELSE s

\* any(p in l.lower() for p in ["orig:", "source:", "original:"])
LooksLikeSource(l) ==
    \/ Contains(LowerStr(l), <<"o","r","i","g",":">>)
    \/ Contains(LowerStr(l), <<"s","o","u","r","c","e",":">>)
    \/ Contains(LowerStr(l), <<"o","r","i","g","i","n","a","l",":">>)

NonEmpty(l) == l # <<>>

NotSource(l) == ~LooksLikeSource(l)

\* the "\n" in cleaned block
JoinTranslationLines(cleaned) ==
    IF ~Contains(cleaned, <<"\n">>) THEN cleaned
    ELSE LET raw   == Split(cleaned, "\n")
             lines == SelectSeq([k \in 1..Len(raw) |-> Strip(raw[k])], NonEmpty)
             trans == SelectSeq(lines, NotSource)
         IN  IF Len(lines) > 1 /\ trans # <<>> THEN Join(trans, <<" ">>) ELSE cleaned

\* the element of a one-element set
Only(S) == CHOOSE x \in S : TRUE

\* the successive values of cleaned (94, 96, 96, 107, 110), each bound once
_clean_translation(text) ==
    Only({ Strip(SubAnyLabel(c3)) :
           c3 \in { JoinTranslationLines(c2) :
                    c2 \in { Strip(SubSrcBlock(c1)) :
                             c1 \in { Strip(SubOutLabel(c0)) :
                                      c0 \in {Strip(text)} } } } })

(***************************************************************************)
(* Values: None, times, segments                                           *)
(***************************************************************************)
\* Python's None; no character of a str equals its element
NoneVal == <<"<None>">>

\* bool(x) of a str-or-None value
Truthy(x) == x # NoneVal /\ x # <<>>

\* an empty slot of a results list ([None] * total_segments)
NoSlot == [empty |-> TRUE]

RECURSIVE GCD(_, _)
GCD(a, b) == IF b = 0 THEN a ELSE GCD(b, a % b)

Abs(x) == IF x < 0 THEN -x ELSE x

\* the rational n/d in lowest terms, d > 0
Rat(n, d) ==
    LET g == GCD(Abs(n), Abs(d))
        s == IF d < 0 THEN -1 ELSE 1
    IN  [n |-> (s * n) \div g, d |-> (s * d) \div g]

\* sums over the least common denominator and products with the common
\* factors taken out first, so that intermediate values stay small; the
\* operands are evaluated once, as members of a set
RatAdd(a, b) ==
    Only({ LET g == GCD(p[1].d, p[2].d)
           IN  Rat(p[1].n * (p[2].d \div g) + p[2].n * (p[1].d \div g),
                   (p[1].d \div g) * p[2].d) : p \in {<<a, b>>} })

RatSub(a, b) ==
    Only({ LET g == GCD(p[1].d, p[2].d)
           IN  Rat(p[1].n * (p[2].d \div g) - p[2].n * (p[1].d \div g),
                   (p[1].d \div g) * p[2].d) : p \in {<<a, b>>} })

RatMul(a, b) ==
    Only({ LET g1 == GCD(Abs(p[1].n), p[2].d)
               g2 == GCD(Abs(p[2].n), p[1].d)
           IN  Rat((p[1].n \div g1) * (p[2].n \div g2),
                   (p[1].d \div g2) * (p[2].d \div g1)) : p \in {<<a, b>>} })

RatLt(a, b) == RatSub(a, b).n < 0

RatLe(a, b) == RatSub(a, b).n <= 0

\* dict.get(key, default)
Get(seg, key, default) == IF key \in DOMAIN seg THEN seg[key] ELSE default

\* a dict with one key set or overwritten
SetKey(seg, key, val) ==
    [k \in DOMAIN seg \cup {key} |-> IF k = key THEN val ELSE seg[k]]

(***************************************************************************)
(* Bounds and inputs                                                       *)
(***************************************************************************)
\* longest transcript handed to one translate / quality_check invocation
MaxSegs == 3

\* longest transcript of a pipeline run
PipeSegs == 2

\* longest transcript of an invocation checked for termination
FairSegs == 2

\* longest list handed to a quality_check whose replies carry delimiters
QASegs == 2

\* the transcript length that fills a pool of ten workers and queues one more
WideSegs == 11

DigitChar(i) == <<"0","1","2","3","4","5","6","7","8","9">>[(i % 10) + 1]

SpeakerA == <<"A">>

\* the text of the i-th transcript segment: "s<i>", the even ones with the
\* leading blank speech-to-text output often carries
SrcText(i) ==
    IF i % 2 = 1 THEN <<"s", DigitChar(i)>> ELSE <<" ", "s", DigitChar(i)>>

\* the i-th transcript segment as translate receives it, starting at second
\* i-1: odd ones are a tenth of a second long and carry a speaker label, even
\* ones are a second long and have no speaker key
Seg(i) ==
    IF i % 2 = 1
    THEN [start |-> Rat(i - 1, 1), end |-> Rat(10 * (i - 1) + 1, 10),
          text |-> SrcText(i), speaker |-> SpeakerA]
    ELSE [start |-> Rat(i - 1, 1), end |-> Rat(i, 1), text |-> SrcText(i)]

ReplyPlain == <<"o"," ","k">>

\* what a completion call may return: plain text, and text that echoes the
\* speaker label and carries an output label
Replies == { ReplyPlain,
             <<"[","A","]",":"," ","O","u","t","p","u","t",":"," ","o","k">> }

\* a completion that answers with two blocks separated by a "---" line
ReplyChunks == <<"o","k","\n","-","-","-","\n","n","o">>

QAReplies == {ReplyPlain, ReplyChunks}

\* longest transcript and longest diarization handed to assign_speakers
AssignSegs == 2

AssignSpans == 2

\* diarization spans: two that meet at second 5, and one that covers the
\* first and reaches into the second
SpanChoices ==
    { [start |-> Rat(0, 1), end |-> Rat(5, 1), speaker |-> <<"A">>],
      [start |-> Rat(5, 1), end |-> Rat(10, 1), speaker |-> <<"B">>],
      [start |-> Rat(0, 1), end |-> Rat(6, 1), speaker |-> <<"C">>] }

\* transcript segments with midpoints 5, 6 and 10.5, as transcribe returns
\* them (speaker None), one without the key and two with a label set before
TranscriptChoices ==
    { [start |-> Rat(4, 1), end |-> Rat(6, 1), text |-> <<"s">>, speaker |-> NoneVal],
      [start |-> Rat(4, 1), end |-> Rat(8, 1), text |-> <<"s">>, speaker |-> NoneVal],
      [start |-> Rat(10, 1), end |-> Rat(11, 1), text |-> <<"s">>, speaker |-> NoneVal],
      [start |-> Rat(10, 1), end |-> Rat(11, 1), text |-> <<"s">>],
      [start |-> Rat(10, 1), end |-> Rat(11, 1), text |-> <<"s">>, speaker |-> <<"Z">>],
      [start |-> Rat(4, 1), end |-> Rat(6, 1), text |-> <<"s">>, speaker |-> <<"Z">>] }

\* longest list handed to refine_segments when every segment is tried
RefineSegs == 2

\* texts of translated segments: without a blank, with one, with two in a
\* row, with white space around three words, of five words, and at 2, 3, 4
\* and 5 characters
RefineTexts ==
    { <<"a","b">>, <<"a","b","c">>, <<"a"," ","b">>, <<"a","b"," ","c">>,
      <<"a"," "," ","b">>, <<" ","a"," ","b"," ","c","\n">>,
      <<"a"," ","b"," ","c","c"," ","d"," ","e">> }

\* (start, end) in tenths of a second: durations 0.1, 0.2 and 1, none, and a
\* negative one
RefineTimes == { <<0, 1>>, <<10, 12>>, <<20, 30>>, <<40, 40>>, <<50, 49>> }

\* the segments of a translated list
RefineInputs ==
    { [start |-> Rat(t[1], 10), end |-> Rat(t[2], 10), text |-> x,
       original |-> <<"s">>, speaker |-> NoneVal] :
      t \in RefineTimes, x \in RefineTexts }

\* longest list handed to generate_srt when every start time is tried
SrtSegs == 2

\* start times run over the first MaxTick tenths of a millisecond after a
\* whole second
MaxTick == 10

\* whole seconds just before and after a minute and an hour
SecondChoices == {0, 59, 3599, 3661}

\* start times at a granularity of 0.1 ms
StartTimes ==
    {Rat(10000 * w + k, 10000) : w \in SecondChoices, k \in 0..MaxTick}

\* the speaker of a segment: no key, None, or a label
SpeakerChoices == {<<>>, NoneVal, SpeakerA}

\* the k-th of a run of subtitles "Hi", each a second and a half long, the
\* first starting at time t; sp is its speaker (<<>> for no key)
Caption(t, k, sp) ==
    LET base == [start |-> RatAdd(t, Rat(3 * (k - 1), 2)),
                 end   |-> RatAdd(t, Rat(3 * k, 2)),
                 text  |-> <<"H","i">>]
    IN  IF sp = <<>> THEN base ELSE SetKey(base, "speaker", sp)

\* longest list handed to generate_ass
AssSegs == 2

\* start times of ASS captions, around a minute and an hour
AssStarts == {Rat(0, 1), Rat(117, 2), Rat(3599, 1), Rat(36610125, 10000)}

\* caption texts: one line, and two lines
AssTexts == {<<"H","i">>, <<"H","\n","i">>}

\* Caption(t, k, sp) with text x
AssCaption(t, k, sp, x) == SetKey(Caption(t, k, sp), "text", x)

\* segments of an invocation in which every failure message and jitter is
\* tried
RetrySegs == 1

\* random.uniform(0, 1) is drawn in steps of 1/JitterSteps
JitterSteps == 2

Jitters == {Rat(k, JitterSteps) : k \in 0..JitterSteps}

\* str(e) of a connection issue
ErrTimeout == <<"t","i","m","e","d"," ","o","u","t">>

\* str(e) of the exceptions a completion call raises: a connection issue, a
\* status 429, and a rate-limit code in lower and in upper case
ErrorMessages ==
    { ErrTimeout,
      <<"E","r","r","o","r"," ","4","2","9">>,
      <<"r","a","t","e","_","l","i","m","i","t","_","e","r","r","o","r">>,
      <<"R","A","T","E","_","L","I","M","I","T">> }

\* segments of the first of two invocations that run at the same time
TwoSegs == 2

\* most segments heard in the video of a whole run of process
ProcSegs == 2

\* what validate_video finds at video_path
VideoFiles == {"ok", "missing", "no video stream", "no audio stream", "unreadable"}

\* longest completion text handed to the cleaner when every text is tried
CleanLen == 5

\* a word character, the label colon, a blank and a line break
CleanAlphabet == {"a", ":", " ", "\n"}

\* every completion text of at most CleanLen of these characters
CleanInputs == UNION {[1..k -> CleanAlphabet] : k \in 0..CleanLen}

\* the value _get_completion leaves when it raised
Raised == <<"<raised>">>

(***************************************************************************)
(* DiarizationService.assign_speakers                                      *)
(***************************************************************************)
\* t_mid = (t_seg['start'] + t_seg['end']) / 2
Midpoint(t_seg) == RatMul(RatAdd(t_seg.start, t_seg.end), Rat(1, 2))

\* d_seg['start'] <= t_mid <= d_seg['end']
SpanContains(d_seg, t_mid) ==
    RatLe(d_seg.start, t_mid) /\ RatLe(t_mid, d_seg.end)

\* the spans the inner loop finds the midpoint in, by list position
Hits(t_seg, spans) ==
    {k \in 1..Len(spans) : SpanContains(spans[k], Midpoint(t_seg))}

PickSpan_Last(hits) == CHOOSE k \in hits : \A j \in hits : j <= k

\* the inner loop breaks at the first span that contains the midpoint
PickSpan(hits) == CHOOSE k \in hits : \A j \in hits : k <= j

NoSpanFound_Cleared(t_seg) == SetKey(t_seg, "speaker", NoneVal)

\* the inner loop ends without a break: t_seg is not touched
NoSpanFound(t_seg) == t_seg

\* one iteration of the outer loop
AssignOne(t_seg, spans) ==
    IF Hits(t_seg, spans) = {} THEN NoSpanFound(t_seg)
    ELSE SetKey(t_seg, "speaker", spans[PickSpan(Hits(t_seg, spans))].speaker)

\* the list returned (the argument list, its segments updated in place)
assign_speakers(transcript_segments, spans) ==
    IF spans = <<>> THEN transcript_segments
    ELSE [k \in 1..Len(transcript_segments) |->
             AssignOne(transcript_segments[k], spans)]

(***************************************************************************)
(* translate_single / qa_single: the result written to results[index]      *)
(***************************************************************************)
\* translation.py 216-219: drop an echoed "[speaker]" and a ":" after it
StripSpeaker(translation, speaker) ==
    LET tag == <<"[">> \o speaker \o <<"]">>
    IN  IF Truthy(speaker) /\ StartsWith(translation, tag)
        THEN LET t == Strip(Drop(translation, Len(tag)))
             IN  IF StartsWith(t, <<":">>) THEN Strip(Drop(t, 1)) ELSE t
        ELSE translation

ErrorPrefix == <<"[","E","r","r","o","r","]"," ">>

TranslateErrorResult_NoMarker(segment) ==
    [start |-> segment.start, end |-> segment.end,
     text |-> segment.text,
     original |-> segment.text,
     speaker |-> Get(segment, "speaker", NoneVal)]

TranslateErrorResult_Dropped(segment) == NoSlot

\* the except branch of translate_single
TranslateErrorResult(segment) ==
    [start |-> segment.start, end |-> segment.end,
     text |-> ErrorPrefix \o segment.text,
     original |-> segment.text,
     speaker |-> Get(segment, "speaker", NoneVal)]

\* the try branch of translate_single after the completion returned ret
TranslateOkResult(segment, ret) ==
    LET speaker == Get(segment, "speaker", NoneVal)
    IN  [start |-> segment.start, end |-> segment.end,
         text |-> Only({ _clean_translation(t2) :
                         t2 \in { StripSpeaker(t1, speaker) :
                                  t1 \in {_clean_translation(ret)} } }),
         original |-> segment.text,
         speaker |-> speaker]

translate_single(segment, ret) ==
    IF ret = Raised THEN TranslateErrorResult(segment)
    ELSE TranslateOkResult(segment, ret)

qa_single_MarkOnFail(segment, ret) ==
    IF ret = Raised THEN SetKey(segment, "text", ErrorPrefix \o segment.text)
    ELSE SetKey(segment, "text", _clean_translation(ret))

\* qa_single: a copy with the cleaned text, or the segment itself on failure
qa_single(segment, ret) ==
    IF ret = Raised THEN segment
    ELSE SetKey(segment, "text", _clean_translation(ret))

TaskCatches_NoExcept(st) == FALSE

\* "except Exception" of translate_single (231) and of qa_single (314): every
\* exception a completion call raises is caught inside the task
TaskCatches(st) == TRUE

\* [r for r in results if r is not None]
IsFilled(r) == r # NoSlot

FilterNone(rs) == SelectSeq(rs, IsFilled)

(***************************************************************************)
(* SubtitleGenerator.refine_segments                                       *)
(***************************************************************************)
\* subtitles.py 43
max_cps == 20

SplitPart_NoSpeaker(seg, s, e, t) ==
    [start |-> s, end |-> e, text |-> t,
     original |-> Get(seg, "original", <<>>),
     speaker |-> NoneVal]

SplitPart_TextAsOriginal(seg, s, e, t) ==
    [start |-> s, end |-> e, text |-> t, original |-> t,
     speaker |-> Get(seg, "speaker", NoneVal)]

\* one of the two dicts appended for a split segment (68-81)
SplitPart(seg, s, e, t) ==
    [start |-> s, end |-> e, text |-> t,
     original |-> Get(seg, "original", <<>>),
     speaker |-> Get(seg, "speaker", NoneVal)]

ShouldSplit_AtThreshold(seg) ==
    LET text     == Strip(seg.text)
        duration == RatSub(seg.end, seg.start)
    IN  /\ duration.n > 0
        /\ Len(text) * duration.d >= max_cps * duration.n
        /\ Contains(text, <<" ">>)

\* the condition of line 57, on the stripped text
ShouldSplit(seg) ==
    LET text     == Strip(seg.text)
        duration == RatSub(seg.end, seg.start)
    IN  /\ duration.n > 0
        /\ Len(text) * duration.d > max_cps * duration.n
        /\ Contains(text, <<" ">>)

split_time_NoOffset(seg, text1, text) ==
    RatMul(RatSub(seg.end, seg.start), Rat(Len(text1), Len(text)))

split_time_ByWords(seg, text1, text) ==
    RatAdd(seg.start,
           RatMul(RatSub(seg.end, seg.start),
                  Rat(Len(Split(text1, " ")), Len(Split(text, " ")))))

\* subtitles.py 66: the duration shared out by the lengths of the texts
split_time(seg, text1, text) ==
    RatAdd(seg.start,
           RatMul(RatSub(seg.end, seg.start), Rat(Len(text1), Len(text))))

midpoint_RoundedUp(words) == (Len(words) + 1) \div 2

\* subtitles.py 60: len(words) // 2
midpoint(words) == Len(words) \div 2

RefineOne_SecondFromStart(seg) ==
    LET text     == Strip(seg.text)
    IN  IF ShouldSplit(seg)
        THEN LET words      == Split(text, " ")
                 text1      == Join(Take(words, midpoint(words)), <<" ">>)
                 text2      == Join(Drop(words, midpoint(words)), <<" ">>)
                 at         == split_time(seg, text1, text)
             IN  << SplitPart(seg, seg.start, at, text1),
                    SplitPart(seg, seg.start, seg.end, text2) >>
        ELSE << SetKey(seg, "text", text) >>

\* what one iteration of the loop appends to refined; text, words and
\* split_time are bound once, as the locals of the loop body are
RefineOne(seg) ==
    Only({ IF ShouldSplit(seg)
           THEN Only({ LET text1 == Join(Take(words, midpoint(words)), <<" ">>)
                           text2 == Join(Drop(words, midpoint(words)), <<" ">>)
                       IN  Only({ << SplitPart(seg, seg.start, at, text1),
                                     SplitPart(seg, at, seg.end, text2) >> :
                                  at \in {split_time(seg, text1, text)} }) :
                       words \in {Split(text, " ")} })
           ELSE << SetKey(seg, "text", text) >> :
           text \in {Strip(seg.text)} })

RECURSIVE refine_segments_SkipUntimed(_)
refine_segments_SkipUntimed(segs) ==
    IF segs = <<>> THEN <<>>
    ELSE IF ~RatLt(Head(segs).start, Head(segs).end)
    THEN refine_segments_SkipUntimed(Tail(segs))
    ELSE RefineOne(Head(segs)) \o refine_segments_SkipUntimed(Tail(segs))

RECURSIVE refine_segments(_)
refine_segments(segs) ==
    IF segs = <<>> THEN <<>>
    ELSE RefineOne(Head(segs)) \o refine_segments(Tail(segs))

\* the argument list after the call: an unsplit segment is stripped in place
AfterRefine(segs) ==
    [k \in 1..Len(segs) |->
        IF ShouldSplit(segs[k]) THEN segs[k]
        ELSE SetKey(segs[k], "text", Strip(segs[k].text))]

(***************************************************************************)
(* SubtitleGenerator.generate_srt                                          *)
(***************************************************************************)
\* int(x) of a non-negative rational
Trunc(r) == r.n \div r.d

\* _seconds_to_subriptime: the fields handed to pysrt.SubRipTime
_seconds_to_subriptime(seconds) ==
    LET whole == Trunc(seconds)
        frac  == RatSub(seconds, Rat(whole, 1))
    IN  [hours   |-> whole \div 3600,
         minutes |-> (whole % 3600) \div 60,
         secs    |-> whole % 60,
         millis  |-> Trunc(RatMul(frac, Rat(1000, 1)))]

SrtText_AlwaysTagged(seg) ==
    <<"[">> \o Get(seg, "speaker", NoneVal) \o <<"]", ":", " ">> \o seg.text

\* the text of an SRT item: "[speaker]: text" when seg.get('speaker') is truthy
SrtText(seg) ==
    LET speaker == Get(seg, "speaker", NoneVal)
    IN  IF Truthy(speaker)
        THEN <<"[">> \o speaker \o <<"]", ":", " ">> \o seg.text
        ELSE seg.text

\* the SubRipItems of generate_srt, in order
generate_srt(segs) ==
    [k \in 1..Len(segs) |->
        [index |-> k,
         start |-> _seconds_to_subriptime(segs[k].start),
         end   |-> _seconds_to_subriptime(segs[k].end),
         text  |-> SrtText(segs[k])]]

(***************************************************************************)
(* SubtitleGenerator.generate_ass                                          *)
(***************************************************************************)
\* format(x, ".2f") of a non-negative rational, in hundredths: the nearest
\* hundredth, the even one of two equally near (binary floats are not
\* modelled, so a decimal tie such as 0.005 is a tie here)
Hundredths(x) ==
    LET y == RatMul(x, Rat(100, 1))
        f == y.n \div y.d
        r == y.n - f * y.d
    IN  IF 2 * r < y.d THEN f
        ELSE IF 2 * r > y.d THEN f + 1
        ELSE IF f % 2 = 0 THEN f ELSE f + 1

\* _seconds_to_ass_time: the fields of H:MM:SS.cc, the last in hundredths
_seconds_to_ass_time(seconds) ==
    LET whole == Trunc(seconds)
        secs  == RatSub(seconds, Rat(whole - (whole % 60), 1))
    IN  [hours   |-> whole \div 3600,
         minutes |-> (whole % 3600) \div 60,
         secs    |-> Hundredths(secs)]

\* text.replace('\n', '\\N')
AssText(text) == Join(Split(text, "\n"), <<"\\", "N">>)

\* str(v) of None or of a string
Str(v) == IF v = NoneVal THEN <<"N","o","n","e">> ELSE v

\* the Name field: str(seg.get('speaker', 'Default'))
AssName(seg) == Str(Get(seg, "speaker", <<"D","e","f","a","u","l","t">>))

\* the Dialogue lines of generate_ass, in order
generate_ass(segs) ==
    [k \in 1..Len(segs) |->
        [start |-> _seconds_to_ass_time(segs[k].start),
         end   |-> _seconds_to_ass_time(segs[k].end),
         name  |-> AssName(segs[k]),
         text  |-> AssText(segs[k].text)]]

AfterEncode_TaggedInPlace(segs) ==
    [k \in 1..Len(segs) |-> SetKey(segs[k], "text", SrtText(segs[k]))]

\* the list handed to generate_srt or generate_ass, after the call: both
\* loops read seg[...] and assign only to their locals
AfterEncode(segs) == segs

(***************************************************************************)
(* State                                                                   *)
(***************************************************************************)
VARIABLES
    use_local,   \* TranslationService.use_local
    stage,       \* the running method: "translate" or "quality_check"
    segments,    \* its argument
    results,     \* its results list
    llm_lock,    \* 0 when free, else the task holding it
    submitted,   \* number of executor.submit calls made so far
    pc,          \* per task: pending, queued, lock, call, sleep, post, done,
                 \*           crashed (an exception left the task)
    attempt,     \* per task: the loop variable of _get_completion
    ret,         \* per task: what _get_completion returned, or Raised
    calls,       \* per task: completion calls made so far
    sleeps,      \* per task: time.sleep calls made so far
    delay,       \* per task: the exception caught last, the jitter drawn and the delay
                 \*           computed for it; Unbound before the first
    status,      \* of the method: "running", "returned" or "raised"; "idle"
                 \* when process has not called one yet
    output,      \* the list it returned
    phase,       \* of process: "start", "extract", "transcribe", "transcribed",
                 \*             "burned", "finished", "raised",
                 \*             "diarize", "translate", "quality_check",
                 \*             "encode", "done"; "none" outside a pipeline run
    transcript,  \* process: transcript_segments
    transcribed, \* process: transcript_segments as transcribe returned them
    diarization_segments,  \* process: what diarize returned
    use_quality_check,  \* process: the option
    refined,     \* process: what refine_segments returned
    subtitle,    \* process: the entries of subtitle_content
    video,       \* process: the file at video_path and the speech in it
    use_diarization,  \* process: the option
    burn_subtitles,   \* process: the option
    log,         \* the stage calls process has made since the initial state, in
                 \* order: stage, list given, list returned, open while the
                 \* call has not been seen to return
    progress,    \* the fractions (in percent) handed to progress_callback
                 \* since the initial state
    files,       \* the files of the run that exist: "audio", "srt", "burned"
    other_pc,    \* a worker of a second invocation running on the same service:
                 \* "lock", "call", "done"; "none" when there is no second one
    other_lock,  \* the llm_lock of that invocation: 0 when free, 1 when held
    error,       \* the exception that left process; NoError while none has
    worker,      \* run_process of translate_stream: "started", "process",
                 \* "finally", "done"; "none" when no request is served
    puts,        \* the items run_process itself has put on q, in order
    job,         \* jobs[job_id]["status"]; "absent" before the first entry
    gen,         \* event_generator: "polling" or "ended"; "none" as worker
    yielded      \* the events event_generator has yielded, in order

inv == <<use_local, stage, segments, results, llm_lock, submitted, pc, attempt,
         ret, calls, sleeps, delay, status, output>>

pipe == <<phase, transcript, transcribed, diarization_segments,
          use_quality_check, refined, subtitle, video, use_diarization,
          burn_subtitles, log, progress, files>>

other == <<other_pc, other_lock>>

request == <<error, worker, puts, job, gen, yielded>>

vars == <<inv, pipe, other, request>>

\* translation.py 131
base_delay == 2

\* b ** k
RECURSIVE Pow(_, _)
Pow(b, k) == IF k = 0 THEN 1 ELSE b * Pow(b, k - 1)

\* "429" in str(e) or "rate_limit" in str(e).lower()
is_rate_limit(e) ==
    \/ Contains(e, <<"4","2","9">>)
    \/ Contains(LowerStr(e), <<"r","a","t","e","_","l","i","m","i","t">>)

BackoffDelay_NoDoubling(a, e, jitter) == RatAdd(Rat(Pow(base_delay, a), 1), jitter)

\* the delay slept after the failure of attempt a
BackoffDelay(a, e, jitter) ==
    LET d == RatAdd(Rat(Pow(base_delay, a), 1), jitter)
    IN  IF is_rate_limit(e) THEN RatMul(d, Rat(2, 1)) ELSE d

\* the locals of the except branch before any attempt has failed
Unbound == [unbound |-> TRUE]

\* the locals of the except branch after attempt a failed with e
BackoffOf(a, e, jitter) ==
    [e |-> e, jitter |-> jitter, delay |-> BackoffDelay(a, e, jitter)]

\* translation.py 130
max_retries == 5

max_workers_Unbounded == Len(segments)

\* translation.py 242 / 317
max_workers == IF use_local THEN 2 ELSE 10

N == Len(segments)

Tasks == 1..N

\* tasks a worker thread has taken from the queue and not finished
Running == {i \in Tasks : pc[i] \in {"lock", "call", "sleep", "post"}}

\* tasks inside a completion call
InCall == {i \in Tasks : pc[i] = "call"}

\* the input of quality_check: what translate returns for the transcript when
\* the call of segment 2, 5, ... failed and the others answered ReplyPlain
Translated(i) == translate_single(Seg(i), IF i % 3 = 2 THEN Raised ELSE ReplyPlain)

\* the start of translate / quality_check on n segments
InitInvocation(n) ==
    /\ results = [i \in 1..n |-> NoSlot]
    /\ llm_lock = 0
    /\ submitted = 0
    /\ pc = [i \in 1..n |-> "pending"]
    /\ attempt = [i \in 1..n |-> 0]
    /\ ret = [i \in 1..n |-> NoneVal]
    /\ calls = [i \in 1..n |-> 0]
    /\ sleeps = [i \in 1..n |-> 0]
    /\ delay = [i \in 1..n |-> Unbound]
    /\ status = "running"
    /\ output = <<>>

\* no exception has left process
NoError == ""

\* process was not called by a request of translate_stream, and has not raised
NoRequest ==
    /\ error = NoError
    /\ worker = "none"
    /\ puts = <<>>
    /\ job = "absent"
    /\ gen = "none"
    /\ yielded = <<>>

\* no second invocation runs on the service
NoOther ==
    /\ other_pc = "none"
    /\ other_lock = 0

\* the file at video_path: what validate_video finds, and the number of
\* segments transcribe hears in it
Video(found, n) == [file |-> found, segs |-> n]

\* the options and the record of a run that started before the initial
\* state: audio extracted, nothing recorded yet
MidRun(n, diar) ==
    /\ video = Video("ok", n)
    /\ use_diarization = diar
    /\ burn_subtitles = FALSE
    /\ log = <<>>
    /\ progress = <<>>
    /\ files = {"audio"}

NoRun ==
    /\ video = Video("none", 0)
    /\ use_diarization = FALSE
    /\ burn_subtitles = FALSE
    /\ log = <<>>
    /\ progress = <<>>
    /\ files = {}

NoPipeline ==
    /\ NoOther
    /\ NoRequest
    /\ NoRun
    /\ phase = "none"
    /\ transcript = <<>>
    /\ transcribed = <<>>
    /\ diarization_segments = <<>>
    /\ use_quality_check = FALSE
    /\ refined = <<>>
    /\ subtitle = <<>>

InvocationInput(n) ==
    [i \in 1..n |-> IF stage = "translate" THEN Seg(i) ELSE Translated(i)]

\* one invocation of translate or of quality_check, local or remote
Init ==
    /\ use_local \in BOOLEAN
    /\ stage \in {"translate", "quality_check"}
    /\ \E n \in 0..MaxSegs : segments = InvocationInput(n) /\ InitInvocation(n)
    /\ NoPipeline

(***************************************************************************)
(* The main thread: submit every task, wait for every future, return       *)
(***************************************************************************)
\* executor.submit(translate_single, i, seg) / executor.submit(qa_single, i, seg)
Submit ==
    /\ status = "running"
    /\ submitted < N
    /\ submitted' = submitted + 1
    /\ pc' = [pc EXCEPT ![submitted + 1] = "queued"]
    /\ UNCHANGED <<use_local, stage, segments, results, llm_lock, attempt, ret,
                   calls, sleeps, delay, status, output>>
    /\ UNCHANGED <<pipe, other, request>>

AllDone_NoWait == submitted = N

\* every future.result() has returned and the with block of the executor has
\* been left (shutdown(wait=True)): every submitted task has ended
AllDone == submitted = N /\ \A i \in Tasks : pc[i] \in {"done", "crashed"}

\* future.result() re-raises what left a task; otherwise the filtered list
Return ==
    /\ status = "running"
    /\ AllDone
    /\ IF \E i \in Tasks : pc[i] = "crashed"
       THEN status' = "raised" /\ output' = <<>>
       ELSE status' = "returned" /\ output' = FilterNone(results)
    /\ UNCHANGED <<use_local, stage, segments, results, llm_lock, submitted, pc,
                   attempt, ret, calls, sleeps, delay>>
    /\ UNCHANGED <<pipe, other, request>>

(***************************************************************************)
(* The worker threads                                                      *)
(***************************************************************************)
\* a worker takes the oldest queued work item; at most max_workers threads.
\* A remote collaborator is called at once; a local one after llm_lock.
CanStart(i) ==
    /\ pc[i] = "queued"
    /\ \A j \in Tasks : j < i => pc[j] # "queued"
    /\ Cardinality(Running) < max_workers

\* the worker begins translate_single / qa_single for task i
Start(i) ==
    /\ CanStart(i)
    /\ IF use_local
       THEN /\ pc' = [pc EXCEPT ![i] = "lock"]
            /\ UNCHANGED calls
       ELSE /\ pc' = [pc EXCEPT ![i] = "call"]
            /\ calls' = [calls EXCEPT ![i] = 1]
    /\ UNCHANGED <<use_local, stage, segments, results, llm_lock, submitted,
                   attempt, ret, sleeps, delay, status, output>>
    /\ UNCHANGED <<pipe, other, request>>

LockAvailable_PerTask(i) == TRUE

\* llm_lock, made once per invocation (185 / 281), can be taken when no
\* worker holds it
LockAvailable(i) == llm_lock = 0

\* with llm_lock: ... self._get_completion(...)
Acquire(i) ==
    /\ pc[i] = "lock"
    /\ LockAvailable(i)
    /\ llm_lock' = i
    /\ pc' = [pc EXCEPT ![i] = "call"]
    /\ calls' = [calls EXCEPT ![i] = @ + 1]
    /\ UNCHANGED <<use_local, stage, segments, results, submitted, attempt, ret,
                   sleeps, delay, status, output>>
    /\ UNCHANGED <<pipe, other, request>>

\* the lock when worker i leaves the with block by a return
Released(i) == IF use_local /\ llm_lock = i THEN 0 ELSE llm_lock

ReleasedOnRaise_Leak(i) == llm_lock

ReleasedOnRaise_Held(i) == IF use_local THEN i ELSE llm_lock

\* the lock when worker i leaves the with block by an exception
ReleasedOnRaise(i) == IF use_local /\ llm_lock = i THEN 0 ELSE llm_lock

RetryAgain_OneFewer(a) == a < max_retries - 2

RetryAgain_OneMore(a) == a < max_retries

\* translation.py 145: sleep and try again, or re-raise
RetryAgain(a) == a < max_retries - 1

ResultOf_OtherSegment(i, v) ==
    IF stage = "translate" THEN translate_single(segments[N + 1 - i], v)
    ELSE qa_single(segments[N + 1 - i], v)

\* results[index] after the task's completion ended with value v
ResultOf(i, v) ==
    IF stage = "translate" THEN translate_single(segments[i], v)
    ELSE qa_single(segments[i], v)

SlotOf_Shared(i) == 1

\* the slot task i stores into: results[index], index its own argument
SlotOf(i) == i

\* the completion call returns text r.  A local worker leaves the with block
\* (releasing llm_lock) before it writes its result; a remote worker shares
\* nothing until the write, so its return and its write are one step
CallOk(i, r) ==
    /\ pc[i] = "call"
    /\ ret' = [ret EXCEPT ![i] = r]
    /\ IF use_local
       THEN /\ pc' = [pc EXCEPT ![i] = "post"]
            /\ UNCHANGED results
       ELSE /\ pc' = [pc EXCEPT ![i] = "done"]
            /\ results' = [results EXCEPT ![SlotOf(i)] = ResultOf(i, r)]
    /\ llm_lock' = Released(i)
    /\ UNCHANGED <<use_local, stage, segments, submitted, attempt, calls, sleeps, delay,
                   status, output>>
    /\ UNCHANGED <<pipe, other, request>>

\* the completion call raises: the local path has no retry loop; the remote
\* path sleeps and retries while RetryAgain, else re-raises into the except
\* branch of the task (an exception the task did not catch would end it)
Fail(i, e, jitter) ==
    /\ pc[i] = "call"
    /\ IF use_local
       THEN /\ ret' = [ret EXCEPT ![i] = Raised]
            /\ pc' = [pc EXCEPT ![i] = IF TaskCatches(stage) THEN "post" ELSE "crashed"]
            /\ UNCHANGED <<sleeps, delay, results>>
       ELSE IF RetryAgain(attempt[i])
       THEN /\ pc' = [pc EXCEPT ![i] = "sleep"]
            /\ delay' = [delay EXCEPT ![i] = BackoffOf(attempt[i], e, jitter)]
            /\ sleeps' = [sleeps EXCEPT ![i] = @ + 1]
            /\ UNCHANGED <<ret, results>>
       ELSE /\ ret' = [ret EXCEPT ![i] = Raised]
            /\ IF TaskCatches(stage)
               THEN /\ pc' = [pc EXCEPT ![i] = "done"]
                    /\ results' = [results EXCEPT ![SlotOf(i)] = ResultOf(i, Raised)]
               ELSE /\ pc' = [pc EXCEPT ![i] = "crashed"]
                    /\ UNCHANGED results
            /\ UNCHANGED <<sleeps, delay>>
    /\ llm_lock' = ReleasedOnRaise(i)
    /\ UNCHANGED <<use_local, stage, segments, submitted, attempt, calls,
                   status, output>>
    /\ UNCHANGED <<pipe, other, request>>

\* a completion call that fails on a connection issue, the jitter drawn 0
CallFail(i) == Fail(i, ErrTimeout, Rat(0, 1))

\* time.sleep(delay) returns: the next iteration of the retry loop calls again
Wake(i) ==
    /\ pc[i] = "sleep"
    /\ attempt' = [attempt EXCEPT ![i] = @ + 1]
    /\ calls' = [calls EXCEPT ![i] = @ + 1]
    /\ pc' = [pc EXCEPT ![i] = "call"]
    /\ UNCHANGED <<use_local, stage, segments, results, llm_lock, submitted, ret,
                   sleeps, delay, status, output>>
    /\ UNCHANGED <<pipe, other, request>>

\* a local worker, the lock released, writes results[index] in the try or the
\* except branch
Write(i) ==
    /\ pc[i] = "post"
    /\ results' = [results EXCEPT ![SlotOf(i)] = ResultOf(i, ret[i])]
    /\ pc' = [pc EXCEPT ![i] = "done"]
    /\ UNCHANGED <<use_local, stage, segments, llm_lock, submitted, attempt, ret,
                   calls, sleeps, delay, status, output>>
    /\ UNCHANGED <<pipe, other, request>>

Next ==
    \/ Submit
    \/ Return
    \/ \E i \in Tasks : Start(i)
    \/ \E i \in Tasks : Acquire(i)
    \/ \E i \in Tasks : \E r \in Replies : CallOk(i, r)
    \/ \E i \in Tasks : CallFail(i)
    \/ \E i \in Tasks : Wake(i)
    \/ \E i \in Tasks : Write(i)

Spec == Init /\ [][Next]_vars

(***************************************************************************)
(* Fairness: every completion call returns or raises, every sleep ends,    *)
(* and a thread that can take a step eventually takes one                  *)
(***************************************************************************)
TaskStep(i) ==
    /\ i \in Tasks
    /\ \/ Start(i)
       \/ Acquire(i)
       \/ \E r \in Replies : CallOk(i, r)
       \/ CallFail(i)
       \/ Wake(i)
       \/ Write(i)

InitFair ==
    /\ use_local \in BOOLEAN
    /\ stage \in {"translate", "quality_check"}
    /\ \E n \in 0..FairSegs : segments = InvocationInput(n) /\ InitInvocation(n)
    /\ NoPipeline

FairSpec ==
    /\ InitFair
    /\ [][Next]_vars
    /\ WF_vars(Submit)
    /\ WF_vars(Return)
    /\ \A i \in 1..FairSegs : WF_vars(TaskStep(i))

(***************************************************************************)
(* A pool under load: WideSegs segments and a collaborator that answers    *)
(* every call                                                              *)
(***************************************************************************)
InitWide ==
    /\ use_local \in BOOLEAN
    /\ stage \in {"translate", "quality_check"}
    /\ segments = InvocationInput(WideSegs)
    /\ InitInvocation(WideSegs)
    /\ NoPipeline

NextWide ==
    \/ Submit
    \/ Return
    \/ \E i \in Tasks : Start(i)
    \/ \E i \in Tasks : Acquire(i)
    \/ \E i \in Tasks : CallOk(i, ReplyPlain)
    \/ \E i \in Tasks : Write(i)

SpecWide == InitWide /\ [][NextWide]_vars

(***************************************************************************)
(* quality_check with a collaborator that may answer in delimited blocks   *)
(***************************************************************************)
InitQA ==
    /\ use_local \in BOOLEAN
    /\ stage = "quality_check"
    /\ \E n \in 0..QASegs : segments = InvocationInput(n) /\ InitInvocation(n)
    /\ NoPipeline

NextQA ==
    \/ Submit
    \/ Return
    \/ \E i \in Tasks : Start(i)
    \/ \E i \in Tasks : Acquire(i)
    \/ \E i \in Tasks : \E r \in QAReplies : CallOk(i, r)
    \/ \E i \in Tasks : CallFail(i)
    \/ \E i \in Tasks : Wake(i)
    \/ \E i \in Tasks : Write(i)

SpecQA == InitQA /\ [][NextQA]_vars

(***************************************************************************)
(* The cleaner on every short completion text: quality_check of one        *)
(* segment, whose qa_single stores _clean_translation of the completion    *)
(***************************************************************************)
InitClean ==
    /\ use_local = FALSE
    /\ stage = "quality_check"
    /\ segments = InvocationInput(1)
    /\ InitInvocation(1)
    /\ NoPipeline

NextClean ==
    \/ Submit
    \/ Return
    \/ \E i \in Tasks : Start(i)
    \/ \E i \in Tasks : \E r \in CleanInputs : CallOk(i, r)

SpecClean == InitClean /\ [][NextClean]_vars

(***************************************************************************)
(* VideoTranslatorApp.process from assign_speakers on (core.py 62-95)      *)
(***************************************************************************)
\* the i-th segment as transcribe returns it: the speaker key is there, None
Transcribed(i) ==
    [start |-> Seg(i).start, end |-> Seg(i).end, text |-> SrcText(i),
     speaker |-> NoneVal]

\* a diarization of the first n segments that hears speaker A during the
\* odd ones and nobody during the even ones
DiarSpans(n) ==
    [k \in 1..((n + 1) \div 2) |->
        [start |-> Seg(2 * k - 1).start, end |-> Seg(2 * k - 1).end,
         speaker |-> SpeakerA]]

\* no method of TranslationService has been called yet
NoInvocation ==
    /\ segments = <<>>
    /\ results = <<>>
    /\ llm_lock = 0
    /\ submitted = 0
    /\ pc = <<>>
    /\ attempt = <<>>
    /\ ret = <<>>
    /\ calls = <<>>
    /\ sleeps = <<>>
    /\ delay = <<>>
    /\ status = "idle"
    /\ output = <<>>

\* process after transcribe and diarize (core.py 59-64).  It builds
\* TranslationService without use_local (core.py 36): remote
InitPipe ==
    /\ NoOther
    /\ NoRequest
    /\ use_local = FALSE
    /\ stage = "translate"
    /\ use_quality_check \in BOOLEAN
    /\ \E n \in 0..PipeSegs :
          /\ transcribed = [i \in 1..n |-> Transcribed(i)]
          /\ transcript = transcribed
          /\ diarization_segments = DiarSpans(n)
          /\ MidRun(n, TRUE)
    /\ NoInvocation
    /\ phase = "diarize"
    /\ refined = <<>>
    /\ subtitle = <<>>

Report_PerSegment(p, frac) == p \o [k \in 1..video.segs |-> frac]

\* progress_callback(frac, ...): one more fraction reported
Report(p, frac) == Append(p, frac)

\* an entry of log
Entry(s, g, r, o) == [stage |-> s, given |-> g, returned |-> r, open |-> o]

\* log once the call of its last entry, if still open, has returned r
Closed(l, r) ==
    IF l # <<>> /\ l[Len(l)].open
    THEN [l EXCEPT ![Len(l)] = Entry(@.stage, @.given, r, FALSE)]
    ELSE l

\* translate(list) / quality_check(list) is entered
Invoke(list) ==
    /\ segments' = list
    /\ results' = [i \in 1..Len(list) |-> NoSlot]
    /\ llm_lock' = 0
    /\ submitted' = 0
    /\ pc' = [i \in 1..Len(list) |-> "pending"]
    /\ attempt' = [i \in 1..Len(list) |-> 0]
    /\ ret' = [i \in 1..Len(list) |-> NoneVal]
    /\ calls' = [i \in 1..Len(list) |-> 0]
    /\ sleeps' = [i \in 1..Len(list) |-> 0]
    /\ delay' = [i \in 1..Len(list) |-> Unbound]
    /\ status' = "running"
    /\ output' = <<>>

ValidationPasses_Always(v) == TRUE

\* video.py 6-27: validate_video returns True; else it raises
\* FileNotFoundError (no file) or ValueError (no video stream, no audio
\* stream, a file ffmpeg cannot probe)
ValidationPasses(v) == v.file = "ok"

\* core.py 48-49: the first report, then validate_video; its exception
\* leaves process
Validate ==
    /\ phase = "start"
    /\ progress' = Report(progress, 10)
    /\ log' = Append(log, Entry("validate", <<>>, <<>>, FALSE))
    /\ phase' = IF ValidationPasses(video) THEN "extract" ELSE "raised"
    /\ error' = IF ValidationPasses(video) THEN error ELSE video.file
    /\ UNCHANGED inv
    /\ UNCHANGED <<transcript, transcribed, diarization_segments,
                   use_quality_check, refined, subtitle, video, use_diarization,
                   burn_subtitles, files>>
    /\ UNCHANGED <<other, worker, puts, job, gen, yielded>>

\* core.py 52-54: extract_audio writes the audio file; get_duration
ExtractAudio ==
    /\ phase = "extract"
    /\ progress' = Report(progress, 20)
    /\ log' = Append(log, Entry("extract", <<>>, <<>>, FALSE))
    /\ files' = files \cup {"audio"}
    /\ phase' = "transcribe"
    /\ UNCHANGED inv
    /\ UNCHANGED <<transcript, transcribed, diarization_segments,
                   use_quality_check, refined, subtitle, video, use_diarization,
                   burn_subtitles>>
    /\ UNCHANGED <<other, request>>

\* core.py 58-59: transcribe returns the segments heard in the audio
Transcribe ==
    /\ phase = "transcribe"
    /\ progress' = Report(progress, 40)
    /\ transcribed' = [i \in 1..video.segs |-> Transcribed(i)]
    /\ transcript' = transcribed'
    /\ log' = Append(log, Entry("transcribe", <<>>, transcribed', FALSE))
    /\ phase' = "transcribed"
    /\ UNCHANGED inv
    /\ UNCHANGED <<diarization_segments, use_quality_check, refined, subtitle,
                   video, use_diarization, burn_subtitles, files>>
    /\ UNCHANGED <<other, request>>

RunsDiarization_Always == TRUE

\* core.py 62: if use_diarization
RunsDiarization == use_diarization

\* core.py 63-64: diarize on the audio
Diarize ==
    /\ phase = "transcribed"
    /\ RunsDiarization
    /\ progress' = Report(progress, 50)
    /\ diarization_segments' = DiarSpans(Len(transcript))
    /\ log' = Append(log, Entry("diarize", <<>>, <<>>, FALSE))
    /\ phase' = "diarize"
    /\ UNCHANGED inv
    /\ UNCHANGED <<transcript, transcribed, use_quality_check, refined, subtitle,
                   video, use_diarization, burn_subtitles, files>>
    /\ UNCHANGED <<other, request>>

\* core.py 65-73: assign_speakers, then translate is called on its result
AssignSpeakers ==
    /\ phase = "diarize"
    /\ transcript' = assign_speakers(transcript, diarization_segments)
    /\ progress' = Report(progress, 60)
    /\ phase' = "translate"
    /\ Invoke(transcript')
    /\ log' = log \o <<Entry("assign", transcript, transcript', FALSE),
                       Entry("translate", segments', <<>>, TRUE)>>
    /\ UNCHANGED <<use_local, stage, transcribed, diarization_segments,
                   use_quality_check, refined, subtitle, video, use_diarization,
                   burn_subtitles, files>>
    /\ UNCHANGED <<other, request>>

\* core.py 62, 68-73: without diarization translate is called on the
\* transcript
TranslateTranscript ==
    /\ phase = "transcribed"
    /\ ~RunsDiarization
    /\ progress' = Report(progress, 60)
    /\ phase' = "translate"
    /\ Invoke(transcript)
    /\ log' = Append(log, Entry("translate", segments', <<>>, TRUE))
    /\ UNCHANGED <<use_local, stage, transcript, transcribed, diarization_segments,
                   use_quality_check, refined, subtitle, video, use_diarization,
                   burn_subtitles, files>>
    /\ UNCHANGED <<other, request>>

\* core.py 76-78: translate has returned and quality_check is called on its
\* result
StartQualityCheck ==
    /\ phase = "translate" /\ status = "returned" /\ use_quality_check
    /\ progress' = Report(progress, 70)
    /\ phase' = "quality_check"
    /\ stage' = "quality_check"
    /\ Invoke(output)
    /\ log' = Append(Closed(log, output), Entry("quality_check", segments', <<>>, TRUE))
    /\ UNCHANGED <<use_local, transcript, transcribed, diarization_segments,
                   use_quality_check, refined, subtitle, video, use_diarization,
                   burn_subtitles, files>>
    /\ UNCHANGED <<other, request>>

\* core.py 81-82: refine_segments on the list of the last stage
Refine ==
    /\ status = "returned"
    /\ \/ phase = "translate" /\ ~use_quality_check
       \/ phase = "quality_check"
    /\ progress' = Report(progress, 75)
    /\ refined' = refine_segments(output)
    /\ output' = AfterRefine(output)
    /\ log' = Append(Closed(log, output), Entry("refine", output, refined', FALSE))
    /\ phase' = "encode"
    /\ UNCHANGED <<use_local, stage, segments, results, llm_lock, submitted, pc,
                   attempt, ret, calls, sleeps, delay, status>>
    /\ UNCHANGED <<transcript, transcribed, diarization_segments,
                   use_quality_check, subtitle, video, use_diarization,
                   burn_subtitles, files>>
    /\ UNCHANGED <<other, request>>

\* core.py 85-95: generate_srt and the write of the subtitle file; "done"
\* is the subtitle done
Encode ==
    /\ phase = "encode"
    /\ progress' = Report(progress, 80)
    /\ subtitle' = generate_srt(refined)
    /\ refined' = AfterEncode(refined)
    /\ log' = Append(log, Entry("encode", refined, subtitle', FALSE))
    /\ files' = files \cup {"srt"}
    /\ phase' = "done"
    /\ UNCHANGED inv
    /\ UNCHANGED <<transcript, transcribed, diarization_segments,
                   use_quality_check, video, use_diarization, burn_subtitles>>
    /\ UNCHANGED <<other, request>>

\* subtitles.py 28-41: generate_ass on the refined list
EncodeAss ==
    /\ phase = "encode"
    /\ subtitle' = generate_ass(refined)
    /\ refined' = AfterEncode(refined)
    /\ phase' = "done"
    /\ UNCHANGED inv
    /\ UNCHANGED <<transcript, transcribed, diarization_segments,
                   use_quality_check, video, use_diarization, burn_subtitles,
                   log, progress, files>>
    /\ UNCHANGED <<other, request>>

\* core.py 98-112: burn_subtitles writes the video with the subtitles
Burn ==
    /\ phase = "done"
    /\ burn_subtitles
    /\ progress' = Report(progress, 90)
    /\ log' = Append(log, Entry("burn", <<>>, <<>>, FALSE))
    /\ files' = files \cup {"burned"}
    /\ phase' = "burned"
    /\ UNCHANGED inv
    /\ UNCHANGED <<transcript, transcribed, diarization_segments,
                   use_quality_check, refined, subtitle, video, use_diarization,
                   burn_subtitles>>
    /\ UNCHANGED <<other, request>>

Finally_KeepsAudio(fs) == fs

\* core.py 125-128: the finally clause removes the audio file if it exists
Finally(fs) == fs \ {"audio"}

CanFinish_BeforeBurn == phase = "done"

\* core.py 98, 114: the subtitle file is written and, with burn_subtitles,
\* burn_subtitles has returned
CanFinish ==
    \/ phase = "done" /\ ~burn_subtitles
    \/ phase = "burned"

\* core.py 114-128: the last report, the return, and the finally clause that
\* removes the audio file
Finish ==
    /\ CanFinish
    /\ progress' = Report(progress, 100)
    /\ files' = Finally(files)
    /\ phase' = "finished"
    /\ UNCHANGED inv
    /\ UNCHANGED <<transcript, transcribed, diarization_segments,
                   use_quality_check, refined, subtitle, video, use_diarization,
                   burn_subtitles, log>>
    /\ UNCHANGED <<other, request>>

\* the calls inside the try block of process (core.py 56-112)
TryStages ==
    {"transcribe", "diarize", "translate", "quality_check", "refine", "encode", "burn"}

\* process is about to report the fraction of stage s and to call it
AboutTo(s) ==
    \/ s = "transcribe" /\ phase = "transcribe"
    \/ s = "diarize" /\ phase = "transcribed" /\ RunsDiarization
    \/ s = "translate" /\ phase = "transcribed" /\ ~RunsDiarization
    \/ s = "translate" /\ phase = "diarize"
    \/ s = "quality_check" /\ phase = "translate" /\ status = "returned"
                           /\ use_quality_check
    \/ s = "refine" /\ status = "returned"
                    /\ \/ phase = "translate" /\ ~use_quality_check
                       \/ phase = "quality_check"
    \/ s = "encode" /\ phase = "encode"
    \/ s = "burn" /\ phase = "done" /\ burn_subtitles

\* the fraction process reports before it calls stage s, in percent
FractionOf(s) ==
    CASE s = "transcribe"    -> 40
      [] s = "diarize"       -> 50
      [] s = "translate"     -> 60
      [] s = "quality_check" -> 70
      [] s = "refine"        -> 75
      [] s = "encode"        -> 80
      [] s = "burn"          -> 90

\* try / finally without except (core.py 56, 125): the exception of the
\* stage leaves process as it was raised
Propagated(e) == e

\* core.py 56-128: the call of stage s raises (for "encode", the write of the
\* subtitle file); the finally clause runs and the exception leaves process
StageRaises(s) ==
    /\ AboutTo(s)
    /\ progress' = Report(progress, FractionOf(s))
    /\ files' = Finally(files)
    /\ error' = Propagated(s)
    /\ phase' = "raised"
    /\ UNCHANGED inv
    /\ UNCHANGED <<transcript, transcribed, diarization_segments,
                   use_quality_check, refined, subtitle, video, use_diarization,
                   burn_subtitles, log>>
    /\ UNCHANGED <<other, worker, puts, job, gen, yielded>>

NextPipe ==
    \/ AssignSpeakers
    \/ Submit
    \/ Return
    \/ \E i \in Tasks : Start(i)
    \/ \E i \in Tasks : \E r \in Replies : CallOk(i, r)
    \/ \E i \in Tasks : CallFail(i)
    \/ \E i \in Tasks : Wake(i)
    \/ StartQualityCheck
    \/ Refine
    \/ Encode

SpecPipe == InitPipe /\ [][NextPipe]_vars

(***************************************************************************)
(* assign_speakers on every short transcript and diarization: process from *)
(* assign_speakers to the call of translate                                *)
(***************************************************************************)
InitAssign ==
    /\ NoOther
    /\ NoRequest
    /\ use_local = FALSE
    /\ stage = "translate"
    /\ use_quality_check = FALSE
    /\ \E n \in 0..AssignSegs : transcribed \in [1..n -> TranscriptChoices]
    /\ MidRun(Len(transcribed), TRUE)
    /\ transcript = transcribed
    /\ \E m \in 0..AssignSpans : diarization_segments \in [1..m -> SpanChoices]
    /\ NoInvocation
    /\ phase = "diarize"
    /\ refined = <<>>
    /\ subtitle = <<>>

NextAssign == AssignSpeakers

SpecAssign == InitAssign /\ [][NextAssign]_vars

(***************************************************************************)
(* refine_segments and generate_srt on every short list: process after a   *)
(* quality_check of the list in which every completion failed, so that its *)
(* result is the list it was given                                         *)
(***************************************************************************)
\* quality_check has returned the list it was given: every completion
\* failed after max_retries attempts and every segment fell back
FellBackOn(list) ==
    /\ NoOther
    /\ NoRequest
    /\ MidRun(Len(list), FALSE)
    /\ use_local = FALSE
    /\ stage = "quality_check"
    /\ use_quality_check = TRUE
    /\ phase = "quality_check"
    /\ segments = list
    /\ pc = [i \in 1..Len(list) |-> "done"]
    /\ attempt = [i \in 1..Len(list) |-> max_retries - 1]
    /\ ret = [i \in 1..Len(list) |-> Raised]
    /\ calls = [i \in 1..Len(list) |-> max_retries]
    /\ sleeps = [i \in 1..Len(list) |-> max_retries - 1]
    /\ delay = [i \in 1..Len(list) |-> BackoffOf(max_retries - 2, ErrTimeout, Rat(0, 1))]
    /\ submitted = Len(list)
    /\ results = list
    /\ output = list
    /\ llm_lock = 0
    /\ status = "returned"
    /\ transcript = <<>>
    /\ transcribed = <<>>
    /\ diarization_segments = <<>>
    /\ refined = <<>>
    /\ subtitle = <<>>

InitRefine ==
    \E n \in 0..RefineSegs : \E list \in [1..n -> RefineInputs] : FellBackOn(list)

NextRefine ==
    \/ Refine
    \/ Encode

SpecRefine == InitRefine /\ [][NextRefine]_vars

(***************************************************************************)
(* generate_srt on runs of captions at every start time: the same process  *)
(* steps on lists that refine_segments leaves whole                        *)
(***************************************************************************)
InitTime ==
    \E n \in 0..SrtSegs : \E t \in StartTimes : \E sp \in [1..n -> SpeakerChoices] :
        FellBackOn([k \in 1..n |-> Caption(t, k, sp[k])])

SpecTime == InitTime /\ [][NextRefine]_vars

(***************************************************************************)
(* generate_ass and generate_srt on runs of captions with and without      *)
(* speaker and line break                                                  *)
(***************************************************************************)
InitAss ==
    \E n \in 0..AssSegs : \E t \in AssStarts :
        \E sp \in [1..n -> SpeakerChoices] : \E x \in [1..n -> AssTexts] :
            FellBackOn([k \in 1..n |-> AssCaption(t, k, sp[k], x[k])])

NextAss ==
    \/ Refine
    \/ Encode
    \/ EncodeAss

SpecAss == InitAss /\ [][NextAss]_vars

(***************************************************************************)
(* The retry loop of _get_completion under every failure message and       *)
(* jitter: a remote translate of RetrySegs segments                        *)
(***************************************************************************)
InitRetry ==
    /\ use_local = FALSE
    /\ stage = "translate"
    /\ segments = InvocationInput(RetrySegs)
    /\ InitInvocation(RetrySegs)
    /\ NoPipeline

NextRetry ==
    \/ Submit
    \/ Return
    \/ \E i \in Tasks : Start(i)
    \/ \E i \in Tasks : CallOk(i, ReplyPlain)
    \/ \E i \in Tasks : \E e \in ErrorMessages : \E jitter \in Jitters : Fail(i, e, jitter)
    \/ \E i \in Tasks : Wake(i)

SpecRetry == InitRetry /\ [][NextRetry]_vars

(***************************************************************************)
(* Two invocations at the same time on one local TranslationService: the   *)
(* invocation above, and one worker of a second call of translate or       *)
(* quality_check, which made its own llm_lock (translation.py 185 / 281)   *)
(***************************************************************************)
InitTwo ==
    /\ use_local = TRUE
    /\ stage \in {"translate", "quality_check"}
    /\ \E n \in 0..TwoSegs : segments = InvocationInput(n) /\ InitInvocation(n)
    /\ phase = "none"
    /\ transcript = <<>>
    /\ transcribed = <<>>
    /\ diarization_segments = <<>>
    /\ use_quality_check = FALSE
    /\ refined = <<>>
    /\ subtitle = <<>>
    /\ NoRun
    /\ NoRequest
    /\ other_pc = "lock"
    /\ other_lock = 0

\* with llm_lock: of the second invocation, on the lock that invocation made
OtherAcquire ==
    /\ other_pc = "lock"
    /\ other_lock = 0
    /\ other_lock' = 1
    /\ other_pc' = "call"
    /\ UNCHANGED <<inv, pipe, request>>

\* its completion call returns or raises and the with block is left
OtherRelease ==
    /\ other_pc = "call"
    /\ other_lock' = 0
    /\ other_pc' = "done"
    /\ UNCHANGED <<inv, pipe, request>>

NextTwo ==
    \/ Submit
    \/ Return
    \/ \E i \in Tasks : Start(i)
    \/ \E i \in Tasks : Acquire(i)
    \/ \E i \in Tasks : \E r \in Replies : CallOk(i, r)
    \/ \E i \in Tasks : CallFail(i)
    \/ \E i \in Tasks : Write(i)
    \/ OtherAcquire
    \/ OtherRelease

SpecTwo == InitTwo /\ [][NextTwo]_vars

(***************************************************************************)
(* A whole run of VideoTranslatorApp.process (core.py 17-128), with a      *)
(* progress callback, every choice of the options and every kind of file   *)
(***************************************************************************)
InitProc ==
    /\ NoOther
    /\ NoRequest
    /\ use_local = FALSE
    /\ stage = "translate"
    /\ NoInvocation
    /\ \E found \in VideoFiles : \E n \in 0..ProcSegs : video = Video(found, n)
    /\ use_diarization \in BOOLEAN
    /\ use_quality_check \in BOOLEAN
    /\ burn_subtitles \in BOOLEAN
    /\ phase = "start"
    /\ transcript = <<>>
    /\ transcribed = <<>>
    /\ diarization_segments = <<>>
    /\ refined = <<>>
    /\ subtitle = <<>>
    /\ log = <<>>
    /\ progress = <<>>
    /\ files = {}

NextProc ==
    \/ Validate
    \/ ExtractAudio
    \/ Transcribe
    \/ Diarize
    \/ AssignSpeakers
    \/ TranslateTranscript
    \/ Submit
    \/ Return
    \/ \E i \in Tasks : Start(i)
    \/ \E i \in Tasks : CallOk(i, ReplyPlain)
    \/ \E i \in Tasks : CallFail(i)
    \/ \E i \in Tasks : Wake(i)
    \/ StartQualityCheck
    \/ Refine
    \/ Encode
    \/ Burn
    \/ Finish

SpecProc == InitProc /\ [][NextProc]_vars

(***************************************************************************)
(* process with stages that may raise                                      *)
(***************************************************************************)
NextRun ==
    \/ NextProc
    \/ \E s \in TryStages : StageRaises(s)

SpecRun == InitProc /\ [][NextRun]_vars

(***************************************************************************)
(* translate_stream (main.py 25-139): run_process in a thread of its own   *)
(* and event_generator polling the queue q                                 *)
(***************************************************************************)
StreamSegs == 1

\* what validate_video may find in the uploaded copy, which exists
UploadedFiles == {"ok", "no audio stream"}

\* the dict progress_callback puts (main.py 61-66), progress in percent
ProgressEvent(f) == [status |-> "processing", progress |-> f]

\* completion_data (main.py 103-109)
CompletionEvent == [status |-> "completed", progress |-> 100]

ErrorEvent_StillProcessing(e) == [status |-> "processing", progress |-> 0, message |-> e]

\* error_data (main.py 113-118), message str(e)
ErrorEvent(e) == [status |-> "error", progress |-> 0, message |-> e]

\* q.put(None) (main.py 122)
Sentinel == [sentinel |-> TRUE]

\* q.put(item) by run_process, after the puts progress_callback has made
Put(item) == Append(puts, [item |-> item, at |-> Len(progress)])

\* the items put on q so far, in the order of the puts: progress_callback
\* puts one event per report (main.py 61), run_process its own in between
RECURSIVE Merge(_, _)
Merge(k, j) ==
    IF j < Len(puts) /\ puts[j + 1].at <= k
    THEN <<puts[j + 1].item>> \o Merge(k, j + 1)
    ELSE IF k < Len(progress)
    THEN <<ProgressEvent(progress[k + 1])>> \o Merge(k + 1, j)
    ELSE <<>>

Queue == Merge(0, 0)

\* the request handler has saved the upload, made q and started the thread
\* (main.py 36-42, 126); event_generator is being iterated
InitStream ==
    /\ NoOther
    /\ use_local = FALSE
    /\ stage = "translate"
    /\ NoInvocation
    /\ \E found \in UploadedFiles : \E n \in 0..StreamSegs : video = Video(found, n)
    /\ use_diarization \in BOOLEAN
    /\ use_quality_check \in BOOLEAN
    /\ burn_subtitles \in BOOLEAN
    /\ phase = "none"
    /\ transcript = <<>>
    /\ transcribed = <<>>
    /\ diarization_segments = <<>>
    /\ refined = <<>>
    /\ subtitle = <<>>
    /\ log = <<>>
    /\ progress = <<>>
    /\ files = {"upload"}
    /\ error = NoError
    /\ worker = "started"
    /\ puts = <<>>
    /\ job = "absent"
    /\ gen = "polling"
    /\ yielded = <<>>

\* main.py 79-81: the first job entry, then translator.process is called
RunProcess ==
    /\ worker = "started"
    /\ job' = "processing"
    /\ worker' = "process"
    /\ phase' = "start"
    /\ UNCHANGED inv
    /\ UNCHANGED <<transcript, transcribed, diarization_segments,
                   use_quality_check, refined, subtitle, video, use_diarization,
                   burn_subtitles, log, progress, files>>
    /\ UNCHANGED <<other, error, puts, gen, yielded>>

\* main.py 103-111: process has returned
Completed ==
    /\ worker = "process"
    /\ phase = "finished"
    /\ puts' = Put(CompletionEvent)
    /\ job' = CompletionEvent.status
    /\ worker' = "finally"
    /\ UNCHANGED <<inv, pipe, other, error, gen, yielded>>

\* main.py 112-120: except Exception
Failed ==
    /\ worker = "process"
    /\ phase = "raised"
    /\ puts' = Put(ErrorEvent(error))
    /\ job' = ErrorEvent(error).status
    /\ worker' = "finally"
    /\ UNCHANGED <<inv, pipe, other, error, gen, yielded>>

\* main.py 121-124: finally: the sentinel, and the upload is removed
Cleanup ==
    /\ worker = "finally"
    /\ puts' = Put(Sentinel)
    /\ files' = files \ {"upload"}
    /\ worker' = "done"
    /\ UNCHANGED inv
    /\ UNCHANGED <<phase, transcript, transcribed, diarization_segments,
                   use_quality_check, refined, subtitle, video, use_diarization,
                   burn_subtitles, log, progress>>
    /\ UNCHANGED <<other, error, job, gen, yielded>>

\* main.py 128-137: q.get_nowait() returns an item; None ends the generator,
\* an event is yielded.  On queue.Empty it sleeps and polls again
Poll ==
    /\ gen = "polling"
    /\ Len(yielded) < Len(Queue)
    /\ LET event == Queue[Len(yielded) + 1]
       IN  IF event = Sentinel
           THEN gen' = "ended" /\ UNCHANGED yielded
           ELSE yielded' = Append(yielded, event) /\ UNCHANGED gen
    /\ UNCHANGED <<inv, pipe, other, error, worker, puts, job>>

NextStream ==
    \/ RunProcess
    \/ NextRun
    \/ Completed
    \/ Failed
    \/ Cleanup
    \/ Poll

SpecStream == InitStream /\ [][NextStream]_vars

\* the threads are scheduled, and every call returns or raises
FairStream == SpecStream /\ WF_vars(NextStream)

(***************************************************************************)
(* Properties of one invocation (Spec)                                     *)
(***************************************************************************)
Returned == status = "returned"

\* C1: whatever the interleaving and the mix of successful and failing calls,
\* translate and quality_check return exactly as many segments as they were
\* given, and the i-th returned segment has the start and end of the i-th
\* input segment and, for translate, that segment's text as its original.
C1_OrderPreserved ==
    Returned =>
        /\ Len(output) = Len(segments)
        /\ \A i \in 1..Len(segments) :
              /\ i <= Len(output)
              /\ output[i].start = segments[i].start
              /\ output[i].end = segments[i].end
              /\ stage = "translate" => output[i].original = segments[i].text

\* a returned remote translate of three segments in which the first segment
\* used every retry and failed while the later ones succeeded at once
C1_Witness ==
    /\ Returned /\ stage = "translate" /\ ~use_local /\ N = 3
    /\ ret[1] = Raised /\ calls[1] = 5
    /\ ret[2] # Raised /\ calls[2] = 1
    /\ ret[3] # Raised /\ calls[3] = 1

\* C2: in translate, a segment whose completion failed terminally gets the
\* text "[Error] " + its source text and its source text as original;
\* translate does not raise; and the result of every segment is determined
\* by that segment and its own completion outcome alone.
C2_FailureIsolated ==
    stage = "translate" =>
        /\ status # "raised"
        /\ \A i \in Tasks : pc[i] # "crashed"
        /\ \A i \in Tasks :
              pc[i] = "done" =>
                 IF ret[i] = Raised
                 THEN /\ results[i].text = ErrorPrefix \o segments[i].text
                      /\ results[i].original = segments[i].text
                      /\ results[i].start = segments[i].start
                      /\ results[i].end = segments[i].end
                 ELSE results[i] = TranslateOkResult(segments[i], ret[i])
        /\ Returned => \A i \in Tasks : output[i] = results[i]

\* translate returned with one failed segment between two translated ones
C2_Witness ==
    /\ Returned /\ stage = "translate" /\ N = 3
    /\ ret[2] = Raised /\ ret[1] # Raised /\ ret[3] # Raised
    /\ output[2].text = ErrorPrefix \o segments[2].text

C4_LocalSingleFlight ==
    /\ use_local =>
          /\ Cardinality(InCall) <= 1
          /\ \A i \in Tasks : pc[i] = "call" <=> llm_lock = i
    /\ ~use_local => llm_lock = 0

\* a remote invocation with three completion calls in flight at once
C4_Witness ==
    /\ ~use_local /\ Cardinality(InCall) = 3 /\ llm_lock = 0

\* C6: when translate or quality_check has returned, every segment task of
\* the invocation has finished: none is queued, waiting for the lock, inside
\* a completion call or asleep in a backoff, every result slot is filled,
\* and the lock is free.
C6_ReturnsAfterAllTasks ==
    status # "running" =>
        /\ submitted = N
        /\ \A i \in Tasks : pc[i] = "done" /\ results[i] # NoSlot
        /\ llm_lock = 0

\* a returned invocation in which one task slept through backoffs
C6_Witness ==
    /\ Returned /\ N = 3
    /\ \E i \in Tasks : sleeps[i] = 4
    /\ \E i \in Tasks : sleeps[i] = 0

\* C8: in quality_check a segment whose completion failed is in the result
\* at its own position exactly as it was handed in (text and every other
\* field); quality_check does not raise and returns every segment.
C8_QualityCheckFallback ==
    stage = "quality_check" =>
        /\ status # "raised"
        /\ \A i \in Tasks : pc[i] # "crashed"
        /\ \A i \in Tasks :
              (pc[i] = "done" /\ ret[i] = Raised) => results[i] = segments[i]
        /\ Returned =>
              /\ Len(output) = Len(segments)
              /\ \A i \in Tasks : ret[i] = Raised => output[i] = segments[i]

\* quality_check returned with a failed segment kept between corrected ones
C8_Witness ==
    /\ Returned /\ stage = "quality_check" /\ N = 3
    /\ ret[1] = Raised /\ ret[2] # Raised /\ ret[3] = Raised
    /\ output[1] = segments[1] /\ output[2] # segments[2]


(***************************************************************************)
(* The pool under load (SpecWide)                                          *)
(***************************************************************************)
\* C5: the number of segment tasks that have started and not yet written
\* their result never exceeds 10 with a remote collaborator and 2 with a
\* local one, however many segments there are.
C5_PoolWidth ==
    Cardinality(Running) <= (IF use_local THEN 2 ELSE 10)

\* ten remote tasks are running while an eleventh waits in the queue
C5_Witness ==
    /\ ~use_local /\ Cardinality(Running) = 10
    /\ \E i \in Tasks : pc[i] = "queued"

(***************************************************************************)
(* Termination (FairSpec)                                                  *)
(***************************************************************************)
\* C7: if every completion call eventually returns or raises and threads are
\* scheduled fairly, every invocation of translate and of quality_check
\* eventually returns a complete result, whatever calls fail.
C7_EventuallyReturns ==
    <>(/\ status = "returned"
       /\ Len(output) = Len(segments)
       /\ \A i \in Tasks : results[i] # NoSlot)

\* a local invocation of two segments returned although every call failed
C7_Witness ==
    /\ Returned /\ use_local /\ N = 2
    /\ \A i \in Tasks : ret[i] = Raised
    /\ Len(output) = 2

(***************************************************************************)
(* The pipeline (SpecPipe)                                                 *)
(***************************************************************************)
\* the refined segments that lie within the time range of transcript segment i
Group(i) ==
    {k \in 1..Len(refined) :
        /\ RatLe(transcript[i].start, refined[k].start)
        /\ RatLe(refined[k].end, transcript[i].end)}

\* the texts of a set of refined segments, in list order, joined by blanks
RECURSIVE JoinedText(_)
JoinedText(ks) ==
    IF ks = {} THEN <<>>
    ELSE LET k == CHOOSE x \in ks : \A y \in ks : x <= y
         IN  IF ks = {k} THEN refined[k].text
             ELSE refined[k].text \o <<" ">> \o JoinedText(ks \ {k})

\* the texts a pipeline stage can leave for transcript segment i: the marked
\* source text, and what translate or quality_check make of a reply
StageTexts(i) ==
    {Strip(ErrorPrefix \o transcript[i].text)}
        \cup {Strip(TranslateOkResult(transcript[i], r).text) : r \in Replies}
        \cup {Strip(_clean_translation(r)) : r \in Replies}

\* C9: a pipeline run that reaches completion encodes a list in which every
\* transcript segment is represented, in transcript order, by one or two
\* segments whose texts together are its translation or its "[Error] "-
\* marked source text; the subtitle has one entry per such segment.
C9_NoSegmentMissing ==
    phase = "done" =>
        /\ \A i \in 1..Len(transcript) :
              /\ Cardinality(Group(i)) \in {1, 2}
              /\ JoinedText(Group(i)) \in StageTexts(i)
              /\ \A j \in 1..Len(transcript) :
                    i < j => \A k \in Group(i) : \A l \in Group(j) : k < l
        /\ \A k \in 1..Len(refined) : \E i \in 1..Len(transcript) : k \in Group(i)
        /\ Len(subtitle) = Len(refined)
        /\ \A k \in 1..Len(refined) :
              /\ k <= Len(subtitle)
              /\ subtitle[k].index = k
              /\ subtitle[k].text = SrtText(refined[k])

\* a completed run with quality check in which the first segment failed in
\* translation and was split in two and the second was translated and kept whole
C9_Witness ==
    /\ phase = "done" /\ use_quality_check /\ Len(transcript) = 2
    /\ Len(subtitle) = 3
    /\ refined[1].text = <<"[","E","r","r","o","r","]">>
    /\ refined[2].text = <<"s","1">>
    /\ refined[3].text = <<"o"," ","k">>

\* C10: the original set by translate is kept by every later stage: each
\* result of quality_check (corrected or fallen back) and each segment
\* returned by refine_segments (unsplit, or either half of a split) has the
\* original of the segment it was derived from, the transcript text.
C10_OriginalKept ==
    /\ (phase = "quality_check") =>
          /\ \A i \in Tasks : pc[i] = "done" => results[i].original = transcript[i].text
          /\ Returned => \A i \in Tasks : output[i].original = transcript[i].text
    /\ (phase \in {"encode", "done"}) =>
          /\ \A i \in 1..Len(transcript) :
                \A k \in Group(i) : refined[k].original = transcript[i].text
          /\ \A k \in 1..Len(refined) : \E i \in 1..Len(transcript) : k \in Group(i)

\* after a quality check that corrected segment 1 and fell back on segment 2,
\* segment 1 was split and both halves and segment 2 carry their originals
C10_Witness ==
    /\ phase = "done" /\ use_quality_check /\ Len(transcript) = 2
    /\ ret[1] # Raised /\ ret[2] = Raised
    /\ Len(refined) = 3
    /\ refined[1].original = SrcText(1) /\ refined[2].original = SrcText(1)
    /\ refined[3].original = SrcText(2)

\* C11: the speaker assign_speakers left on a transcript segment (a label, or
\* None where no span matched) is the speaker of every segment derived from
\* it: the result of translate (translated or "[Error]"-marked), the result
\* of quality_check (corrected or fallen back) and what refine_segments
\* returns for it (the unsplit segment, or both halves of a split).
C11_SpeakerCarried ==
    /\ (phase \in {"translate", "quality_check"}) =>
          /\ \A i \in Tasks :
                pc[i] = "done" =>
                   /\ "speaker" \in DOMAIN results[i]
                   /\ results[i].speaker = transcript[i].speaker
          /\ Returned =>
                \A i \in Tasks :
                   /\ "speaker" \in DOMAIN output[i]
                   /\ output[i].speaker = transcript[i].speaker
    /\ (phase \in {"encode", "done"}) =>
          /\ \A i \in 1..Len(transcript) :
                \A k \in Group(i) :
                   /\ "speaker" \in DOMAIN refined[k]
                   /\ refined[k].speaker = transcript[i].speaker
          /\ \A k \in 1..Len(refined) : \E i \in 1..Len(transcript) : k \in Group(i)

\* a completed run in which assign_speakers labelled segment 1 and not
\* segment 2, segment 1 failed in translate and in quality_check and was
\* split, and segment 2 was corrected and kept whole
C11_Witness ==
    /\ phase = "done" /\ use_quality_check /\ Len(transcript) = 2
    /\ Len(diarization_segments) = 1
    /\ transcribed[1].speaker = NoneVal /\ transcript[1].speaker = SpeakerA
    /\ ret[1] = Raised /\ ret[2] # Raised
    /\ Len(refined) = 3
    /\ refined[1].text = <<"[","E","r","r","o","r","]">>
    /\ refined[1].speaker = SpeakerA /\ refined[2].speaker = SpeakerA
    /\ refined[3].speaker = NoneVal

(***************************************************************************)
(* Quality verification and delimited replies (SpecQA)                     *)
(***************************************************************************)
\* s split on every occurrence of the separator sep (a str), pieces in order
RECURSIVE SplitOn(_, _)
SplitOn(s, sep) ==
    IF \E p \in 1..Len(s) : MatchAt(s, p, sep, FALSE)
    THEN LET p == CHOOSE q \in 1..Len(s) :
                     /\ MatchAt(s, q, sep, FALSE)
                     /\ \A j \in 1..(q - 1) : ~MatchAt(s, j, sep, FALSE)
         IN  <<Take(s, p - 1)>> \o SplitOn(Drop(s, p + Len(sep) - 1), sep)
    ELSE <<s>>

\* the trimmed non-empty chunks of a response split on the delimiter ---
Chunks(response) ==
    LET parts == SplitOn(response, <<"-","-","-">>)
    IN  SelectSeq([k \in 1..Len(parts) |-> Strip(parts[k])], NonEmpty)

\* a batched verifier: segment i is in batch (i-1) \div 10, at position
\* ((i-1) % 10) + 1 of it; the batch's one call is made for its first segment
BatchHead(i) == 10 * ((i - 1) \div 10) + 1

BatchPos(i) == ((i - 1) % 10) + 1

RECURSIVE SumCalls(_)
SumCalls(k) == IF k = 0 THEN 0 ELSE calls[k] + SumCalls(k - 1)

C13_CleanIdempotent ==
    \A i \in Tasks :
        (pc[i] = "done" /\ ret[i] # Raised) =>
            _clean_translation(results[i].text) = results[i].text

(***************************************************************************)
(* Refinement (SpecRefine): segments is the list refine_segments was given *)
(***************************************************************************)
\* the splitting condition as the claim words it: duration > 0, more than
\* 20 characters of trimmed text per second, and a blank in the trimmed text
MustSplit(seg) ==
    LET t == Strip(seg.text)
        d == RatSub(seg.end, seg.start)
    IN  /\ RatLt(Rat(0, 1), d)
        /\ RatLt(Rat(20, 1), RatMul(Rat(Len(t), 1), Rat(d.d, d.n)))
        /\ \E k \in 1..Len(t) : t[k] = " "

\* how many refined segments the first k input segments account for
RECURSIVE Before(_)
Before(k) ==
    IF k = 0 THEN 0
    ELSE Before(k - 1) + (IF MustSplit(segments[k]) THEN 2 ELSE 1)

WasRefined == phase \in {"encode", "done"}

\* C14: refine_segments emits two segments for an input segment exactly when
\* its duration is positive, its trimmed text has more than max_cps (20)
\* characters per second and contains a blank; every other segment (cps 20
\* or less, no blank, duration zero or negative) is emitted once, with its
\* text trimmed and its start, end and other fields unchanged.
C14_SplitExactlyWhen ==
    WasRefined =>
        /\ Len(refined) = Before(Len(segments))
        /\ \A i \in 1..Len(segments) :
              LET k == Before(i - 1) + 1
              IN  IF MustSplit(segments[i])
                  THEN /\ refined[k].start = segments[i].start
                       /\ refined[k + 1].end = segments[i].end
                       /\ refined[k].text \o <<" ">> \o refined[k + 1].text
                             = Strip(segments[i].text)
                  ELSE refined[k] =
                          [segments[i] EXCEPT !.text = Strip(segments[i].text)]

\* a list refined to three: "ab c" over 0.2 s (exactly 20 characters per
\* second) was kept whole and "ab c" over 0.1 s was split
C14_Witness ==
    /\ WasRefined /\ Len(segments) = 2 /\ Len(refined) = 3
    /\ segments[1].text = <<"a","b"," ","c">>
    /\ segments[1].start = Rat(1, 1) /\ segments[1].end = Rat(12, 10)
    /\ segments[2].text = <<"a","b"," ","c">>
    /\ segments[2].start = Rat(0, 1) /\ segments[2].end = Rat(1, 10)
    /\ refined[1].text = <<"a","b"," ","c">>
    /\ refined[2].text = <<"a","b">> /\ refined[3].text = <<"c">>

\* C15: the two halves of a split segment tile its range: the first starts
\* at its start, the second ends at its end, the first ends where the
\* second starts, and each half ends strictly after it starts; also when
\* the text has blanks in a row.
C15_HalvesTile ==
    WasRefined =>
        \A i \in 1..Len(segments) :
            MustSplit(segments[i]) =>
                LET first  == refined[Before(i - 1) + 1]
                    second == refined[Before(i - 1) + 2]
                IN  /\ first.start = segments[i].start
                    /\ first.end = second.start
                    /\ second.end = segments[i].end
                    /\ RatLt(first.start, first.end)
                    /\ RatLt(second.start, second.end)

\* "a  b", two blanks in a row, over 0 .. 0.1 s was split into "a" and
\* " b" at a quarter of the range
C15_Witness ==
    /\ WasRefined /\ Len(segments) = 1 /\ Len(refined) = 2
    /\ segments[1].text = <<"a"," "," ","b">>
    /\ segments[1].start = Rat(0, 1) /\ segments[1].end = Rat(1, 10)
    /\ refined[1].text = <<"a">> /\ refined[2].text = <<" ","b">>
    /\ refined[1].end = Rat(1, 40) /\ refined[2].start = Rat(1, 40)

\* the trimmed text of input segment i is the text of the one, or the texts
\* joined by a blank of the two, refined segments from position k on
DerivedAt(i, k, c) ==
    /\ k + c - 1 <= Len(refined)
    /\ refined[k].start = segments[i].start
    /\ refined[k + c - 1].end = segments[i].end
    /\ Strip(segments[i].text) =
          (IF c = 1 THEN refined[k].text
           ELSE refined[k].text \o <<" ">> \o refined[k + 1].text)

\* the refined list from position k on is made, in order, of one or two
\* segments for each of the input segments i, i+1, ...
RECURSIVE Covers(_, _)
Covers(i, k) ==
    IF i > Len(segments) THEN k = Len(refined) + 1
    ELSE \E c \in {1, 2} : DerivedAt(i, k, c) /\ Covers(i + 1, k + c)

\* C16: refine_segments drops no segment: its result consists, in input
\* order, of one or two segments for each input segment, so it has between
\* n and 2n segments; a half is not split again.
C16_NoSegmentDropped ==
    WasRefined =>
        /\ Len(segments) <= Len(refined)
        /\ Len(refined) <= 2 * Len(segments)
        /\ Covers(1, 1)

\* a segment without duration was kept next to one split into "a" and
\* "b c", and the half "b c", itself too fast and with a blank, stayed whole
C16_Witness ==
    /\ WasRefined /\ Len(segments) = 2 /\ Len(refined) = 3
    /\ segments[1].start = segments[1].end
    /\ refined[1].start = refined[1].end
    /\ refined[2].text = <<"a">> /\ refined[3].text = <<"b"," ","c">>
    /\ MustSplit(refined[3])

(***************************************************************************)
(* Speaker assignment (SpecAssign): transcribed is the transcript on entry *)
(***************************************************************************)
Assigned == phase # "diarize"

\* span k contains the midpoint of the entry segment i, bounds included:
\* 2 * span.start <= start + end <= 2 * span.end
MidpointIn(i, k) ==
    LET twice == RatAdd(transcribed[i].start, transcribed[i].end)
        d     == diarization_segments[k]
    IN  /\ RatLe(RatAdd(d.start, d.start), twice)
        /\ RatLe(twice, RatAdd(d.end, d.end))

C18_UnmatchedUntouched ==
    Assigned =>
        /\ Len(transcript) = Len(transcribed)
        /\ \A i \in 1..Len(transcribed) :
              /\ i <= Len(transcript)
              /\ transcript[i].start = transcribed[i].start
              /\ transcript[i].end = transcribed[i].end
              /\ transcript[i].text = transcribed[i].text
              /\ (\A k \in 1..Len(diarization_segments) : ~MidpointIn(i, k)) =>
                    transcript[i] = transcribed[i]

\* with spans [0,5,A], [5,10,B], a segment at 10..11 without a speaker key
\* and one labelled Z came back as they were
C18_Witness ==
    /\ Assigned
    /\ Len(diarization_segments) = 2
    /\ diarization_segments[1].speaker = <<"A">>
    /\ diarization_segments[2].speaker = <<"B">>
    /\ Len(transcribed) = 2
    /\ "speaker" \notin DOMAIN transcribed[1]
    /\ "speaker" \notin DOMAIN transcript[1]
    /\ transcribed[2].start = Rat(10, 1)
    /\ "speaker" \in DOMAIN transcript[2]
    /\ transcript[2].speaker = <<"Z">>

(***************************************************************************)
(* SRT entries and timecodes (SpecTime)                                    *)
(***************************************************************************)
\* a timecode in milliseconds
TimecodeMs(tc) == ((tc.hours * 60 + tc.minutes) * 60 + tc.secs) * 1000 + tc.millis

\* a timecode lies less than a millisecond from the time t
NearTime(tc, t) ==
    /\ RatLt(Rat(TimecodeMs(tc) - 1, 1), RatMul(t, Rat(1000, 1)))
    /\ RatLt(RatMul(t, Rat(1000, 1)), Rat(TimecodeMs(tc) + 1, 1))

\* C19: generate_srt emits one entry per segment, in order, numbered 1..n;
\* entry k has the timecodes of the start and end of segment k (to the
\* millisecond) and its text, as "[speaker]: text" when the segment has a
\* speaker label and bare otherwise (no key, or None).
C19_OneEntryPerSegment ==
    phase = "done" =>
        /\ Len(subtitle) = Len(refined)
        /\ \A k \in 1..Len(refined) :
              /\ k <= Len(subtitle)
              /\ subtitle[k].index = k
              /\ NearTime(subtitle[k].start, refined[k].start)
              /\ NearTime(subtitle[k].end, refined[k].end)
              /\ subtitle[k].text =
                    (IF "speaker" \in DOMAIN refined[k] /\ refined[k].speaker # NoneVal
                     THEN <<"[">> \o refined[k].speaker \o <<"]",":"," ">>
                              \o refined[k].text
                     ELSE refined[k].text)

\* {start 0, end 1.5, text Hi, no speaker} followed by a caption of speaker
\* A: entry 1 is 00:00:00,000 --> 00:00:01,500 Hi, entry 2 is "[A]: Hi"
C19_Witness ==
    /\ phase = "done" /\ Len(refined) = 2 /\ Len(subtitle) = 2
    /\ refined[1] = [start |-> Rat(0, 1), end |-> Rat(3, 2), text |-> <<"H","i">>]
    /\ subtitle[1] = [index |-> 1,
                      start |-> [hours |-> 0, minutes |-> 0, secs |-> 0, millis |-> 0],
                      end   |-> [hours |-> 0, minutes |-> 0, secs |-> 1, millis |-> 500],
                      text  |-> <<"H","i">>]
    /\ subtitle[2].index = 2
    /\ subtitle[2].text = <<"[","A","]",":"," ","H","i">>

\* floor of a non-negative rational
Floor(r) == CHOOSE q \in 0..(r.n \div r.d + 1) : q * r.d <= r.n /\ r.n < (q + 1) * r.d

\* m is an integer nearest to the rational r
IsNearest(m, r) ==
    /\ RatLe(RatSub(Rat(m, 1), r), Rat(1, 2))
    /\ RatLe(RatSub(r, Rat(m, 1)), Rat(1, 2))

\* C20: for a time s >= 0 the SRT timecode has hours = floor(s/3600),
\* minutes = floor((s mod 3600)/60), seconds = floor(s mod 60) and millis =
\* the fractional part of s times 1000 rounded to the nearest integer.
C20_MillisRounded ==
    phase = "done" =>
        \A k \in 1..Len(refined) :
            LET s     == refined[k].start
                whole == Floor(s)
                tc    == subtitle[k].start
            IN  /\ tc.hours = whole \div 3600
                /\ tc.minutes = (whole % 3600) \div 60
                /\ tc.secs = whole % 60
                /\ IsNearest(tc.millis, RatMul(RatSub(s, Rat(whole, 1)), Rat(1000, 1)))

(***************************************************************************)
(* Properties of generate_ass and generate_srt (SpecAss)                   *)
(***************************************************************************)
\* the subtitle was encoded by generate_ass
IsAss == phase = "done" /\ \A k \in 1..Len(subtitle) : "name" \in DOMAIN subtitle[k]

\* C21: generate_ass emits one Dialogue line per segment, in order, and the
\* Name of a line is the segment's speaker when one is set and "Default"
\* when the segment has none, be the key missing or its value None
C21_AssNameDefault ==
    IsAss =>
        /\ Len(subtitle) = Len(refined)
        /\ \A k \in 1..Len(refined) :
            /\ subtitle[k].text = AssText(refined[k].text)
            /\ subtitle[k].name =
                 IF Truthy(Get(refined[k], "speaker", NoneVal))
                 THEN refined[k].speaker
                 ELSE <<"D","e","f","a","u","l","t">>

\* C22: a call of generate_srt or generate_ass leaves the list it was given
\* as it was: same length, same order, every field of every segment
C22_EncodersKeepInput ==
    [][phase = "encode" /\ phase' = "done" =>
         /\ Len(refined') = Len(refined)
         /\ \A k \in 1..Len(refined) :
             /\ DOMAIN refined'[k] = DOMAIN refined[k]
             /\ \A f \in DOMAIN refined[k] : refined'[k][f] = refined[k][f]]_vars

\* two captions, the second one labelled, encoded to ASS
C22_Witness ==
    /\ IsAss
    /\ Len(refined) = 2
    /\ Get(refined[2], "speaker", NoneVal) = SpeakerA
    /\ subtitle[2].name = SpeakerA
    /\ Get(refined[1], "speaker", NoneVal) = NoneVal

(***************************************************************************)
(* Properties of the retry loop (SpecRetry)                                *)
(***************************************************************************)
\* the message names a rate limit, as the text of the claim spells it
NamesRateLimit(e) ==
    \/ Contains(e, <<"4","2","9">>)
    \/ Contains(e, <<"r","a","t","e","_","l","i","m","i","t">>)

\* C26: a task asleep after failed attempt i (counted from 0; only attempts
\* 0..3 are followed by a sleep) waits 2^i plus a jitter within [0, 1],
\* the whole of it doubled when the message names a rate limit and only
\* when it does so in some letter case: the plain waits start at 1, 2, 4, 8
\* and a rate-limited wait is at least 2 * 2^i
C26_BackoffDelay ==
    \A i \in Tasks :
        pc[i] = "sleep" =>
            LET b == Rat(Pow(2, attempt[i]), 1)
                w == delay[i]
                plain == RatAdd(b, w.jitter)
            IN  /\ attempt[i] \in 0..3
                /\ RatLe(Rat(0, 1), w.jitter) /\ RatLe(w.jitter, Rat(1, 1))
                /\ NamesRateLimit(w.e) =>
                      /\ w.delay = RatAdd(plain, plain)
                      /\ RatLe(RatMul(Rat(2, 1), b), w.delay)
                /\ ~NamesRateLimit(LowerStr(w.e)) =>
                      /\ w.delay = plain
                      /\ RatLe(b, w.delay) /\ RatLe(w.delay, RatAdd(b, Rat(1, 1)))
                /\ w.delay \in {plain, RatAdd(plain, plain)}

\* the fourth attempt failed on a status 429 with jitter 1/2: the wait is
\* 2 * (8 + 1/2) = 17 seconds
C26_Witness ==
    \E i \in Tasks :
        /\ pc[i] = "sleep"
        /\ attempt[i] = 3
        /\ Contains(delay[i].e, <<"4","2","9">>)
        /\ delay[i].jitter = Rat(1, 2)
        /\ delay[i].delay = Rat(17, 1)

(***************************************************************************)
(* Properties of the results array (Spec)                                  *)
(***************************************************************************)
\* slot k of results is empty
Empty(k) == results[k] = NoSlot

\* C27: a slot of results changes only from empty to filled, only in the
\* step in which the task of that index finishes, and no step changes two
\* slots; at return no slot is empty and the filter has removed nothing
C27_SlotWrittenOnce ==
    /\ [][\A k \in 1..Len(results) :
            results'[k] # results[k] =>
                /\ Empty(k)
                /\ results'[k] # NoSlot
                /\ pc[k] \in {"call", "post"} /\ pc'[k] = "done"
                /\ \A j \in 1..Len(results) : j # k => results'[j] = results[j]
                /\ \A j \in 1..Len(results) : j # k => pc'[j] = pc[j]]_vars
    /\ [](\A k \in 1..Len(results) : pc[k] = "done" <=> ~Empty(k))
    /\ [](status = "returned" =>
            /\ \A k \in 1..Len(results) : ~Empty(k)
            /\ output = results
            /\ Len(output) = Len(segments))

\* three tasks have each filled their own slot, one of them with a fallback,
\* and the invocation has returned all three
C27_Witness ==
    /\ status = "returned"
    /\ Len(results) = 3
    /\ \A k \in 1..3 : ~Empty(k) /\ results[k].start = segments[k].start
    /\ ret[2] = Raised
    /\ ret[1] # Raised
    /\ Len(output) = 3

\* C29: a remote task stops calling at its first success: finished with the
\* response of attempt k it has made k <= 5 completion calls and k - 1
\* sleeps and makes no more; finished with the exception it has made 5
\* calls and 4 sleeps; on the way every call but the first follows a sleep
C29_StopsAtFirstSuccess ==
    /\ [](~use_local =>
            \A i \in Tasks :
                /\ pc[i] = "call" => calls[i] = sleeps[i] + 1 /\ calls[i] <= max_retries
                /\ pc[i] = "sleep" => calls[i] = sleeps[i] /\ calls[i] < max_retries
                /\ (pc[i] = "done" /\ ret[i] # Raised) =>
                      /\ calls[i] \in 1..max_retries
                      /\ sleeps[i] = calls[i] - 1
                      /\ ret[i] \in Replies
                      /\ results[i] = ResultOf(i, ret[i])
                /\ (pc[i] = "done" /\ ret[i] = Raised) =>
                      /\ calls[i] = max_retries
                      /\ sleeps[i] = max_retries - 1
                      /\ results[i] = ResultOf(i, Raised))
    /\ [][\A i \in Tasks :
            pc[i] = "done" =>
                /\ pc'[i] = "done"
                /\ calls'[i] = calls[i]
                /\ sleeps'[i] = sleeps[i]
                /\ ret'[i] = ret[i]]_vars

\* one remote task succeeded at its third attempt after two sleeps, another
\* failed five times and slept four
C29_Witness ==
    /\ ~use_local
    /\ \E i \in Tasks :
        pc[i] = "done" /\ ret[i] \in Replies /\ calls[i] = 3 /\ sleeps[i] = 2
    /\ \E i \in Tasks :
        pc[i] = "done" /\ ret[i] = Raised /\ calls[i] = 5 /\ sleeps[i] = 4

(***************************************************************************)
(* Properties of the lock of a local invocation (FairSpec)                 *)
(***************************************************************************)
\* task i was handed to the executor and has not finished
Unfinished(i) == pc[i] \in {"queued", "lock", "call", "sleep", "post"}

\* worker i can take a step: start the first queued task on a free worker,
\* take the free lock, finish or fail its call, wake up, or write its result
CanStep(i) ==
    \/ CanStart(i)
    \/ pc[i] = "lock" /\ LockAvailable(i)
    \/ pc[i] \in {"call", "sleep", "post"}

\* C30: in local mode the lock is held only during a completion call, so it
\* is released when the call returns and when it raises; a worker writes
\* its result, the fallback of a failed call included, after it released
\* the lock; while a task is unfinished some worker can take a step; and
\* whenever workers wait for the lock a time comes at which none waits (a
\* worker stops waiting only by taking the lock)
C30_LockReleasedOnEveryExit ==
    /\ [](use_local =>
            /\ llm_lock # 0 => llm_lock \in Tasks /\ pc[llm_lock] = "call"
            /\ \A i \in Tasks : pc[i] \in {"post", "done", "crashed"} => llm_lock # i
            /\ \A i \in Tasks : pc[i] = "post" => Empty(i)
            /\ (\E i \in Tasks : Unfinished(i)) => \E i \in Tasks : CanStep(i))
    /\ [][use_local =>
            \A i \in Tasks :
                results'[i] # results[i] => pc[i] = "post" /\ llm_lock # i]_vars
    /\ (use_local /\ \E i \in Tasks : pc[i] = "lock")
            ~> (\A i \in Tasks : pc[i] # "lock")

\* a local worker whose call raised has released the lock and not yet
\* written its fallback, while the other worker waits for the lock
C30_Witness ==
    /\ use_local
    /\ \E i, j \in Tasks :
        /\ pc[i] = "post" /\ ret[i] = Raised /\ Empty(i)
        /\ pc[j] = "lock"
        /\ llm_lock = 0

(***************************************************************************)
(* Properties of two invocations on one local service (SpecTwo)            *)
(***************************************************************************)
\* completion calls in flight on the local model
InFlight == Cardinality(InCall) + (IF other_pc = "call" THEN 1 ELSE 0)

\* C28: on a local service at most one completion call is in flight on the
\* model at any time, also while two invocations run on it
C28_SingleFlightAcrossInvocations == use_local => InFlight <= 1

(***************************************************************************)
(* Properties of a whole run of process (SpecProc)                         *)
(***************************************************************************)
\* a is an initial part of b
IsPrefix(a, b) == Len(a) <= Len(b) /\ \A k \in 1..Len(a) : a[k] = b[k]

\* [x] when the option is on
Opt(on, x) == IF on THEN <<x>> ELSE <<>>

\* the stages that hand a segment list on
HandsOn(entry) ==
    entry.stage \in {"transcribe", "assign", "translate", "quality_check",
                     "refine", "encode"}

Staged == SelectSeq(log, HandsOn)

\* their order under the options of the run
StageOrder ==
    <<"transcribe">> \o Opt(use_diarization, "assign") \o <<"translate">>
        \o Opt(use_quality_check, "quality_check") \o <<"refine", "encode">>

\* C23: the stages run in the order transcribe, speaker assignment (with
\* use_diarization), translate, quality_check (with use_quality_check),
\* refine_segments, encoding; a stage is called only when no earlier one is
\* still running, on the very list the stage before it returned; without
\* use_diarization neither diarize nor assign_speakers is called, without
\* use_quality_check no quality_check; a finished run has run them all
C23_StagesInOrder ==
    /\ [](IsPrefix([k \in 1..Len(Staged) |-> Staged[k].stage], StageOrder))
    /\ [](\A k \in 2..Len(Staged) :
            ~Staged[k - 1].open /\ Staged[k].given = Staged[k - 1].returned)
    /\ [](~use_diarization =>
            /\ \A k \in 1..Len(log) : log[k].stage \notin {"diarize", "assign"}
            /\ diarization_segments = <<>>
            /\ transcript = transcribed)
    /\ [](~use_quality_check =>
            /\ \A k \in 1..Len(log) : log[k].stage # "quality_check"
            /\ stage = "translate")
    /\ [](phase = "finished" =>
            /\ [k \in 1..Len(Staged) |-> Staged[k].stage] = StageOrder
            /\ \A k \in 1..Len(log) : ~log[k].open)
    /\ [][Len(log') > Len(log) => status # "running"]_vars

\* a finished run with both optional stages on two segments, the first of
\* them labelled by assign_speakers
C23_Witness ==
    /\ phase = "finished"
    /\ use_diarization /\ use_quality_check
    /\ Len(Staged) = 6
    /\ Len(Staged[2].returned) = 2
    /\ Staged[2].returned[1].speaker = SpeakerA
    /\ Staged[3].given = Staged[2].returned
    /\ Staged[4].given = Staged[3].returned

\* the fractions a successful run reports, in percent
Fractions ==
    <<10, 20, 40>> \o Opt(use_diarization, 50) \o <<60>>
        \o Opt(use_quality_check, 70) \o <<75, 80>>
        \o Opt(burn_subtitles, 90) \o <<100>>

\* 1 when the option is on
Count(on) == IF on THEN 1 ELSE 0

\* C24: the callback is invoked once per stage transition reached, in the
\* order of the stages, and by no step that stays within a stage; a
\* successful run makes 7 invocations and one more for each of diarization,
\* quality check and burn-in, whatever the number of segments
C24_ProgressPerStage ==
    /\ [](IsPrefix(progress, Fractions))
    /\ [](phase = "finished" =>
            /\ progress = Fractions
            /\ Len(progress) =
                 7 + Count(use_diarization) + Count(use_quality_check)
                   + Count(burn_subtitles))
    /\ [][progress' # progress =>
            /\ phase' # phase
            /\ Len(progress') = Len(progress) + 1]_vars

\* a finished run on two segments with every option: ten invocations
C24_Witness ==
    /\ phase = "finished"
    /\ Len(transcribed) = 2
    /\ use_diarization /\ use_quality_check /\ burn_subtitles
    /\ Len(progress) = 10

\* C25: when validate_video raises, process raises at once: audio
\* extraction, transcription, diarization, translation, quality check,
\* refinement and encoding are not called and no file is written
C25_InvalidVideoStopsRun ==
    video.file # "ok" =>
        /\ phase \in {"start", "raised"}
        /\ \A k \in 1..Len(log) : log[k].stage = "validate"
        /\ files = {}
        /\ status = "idle" /\ \A i \in Tasks : calls[i] = 0
        /\ transcribed = <<>> /\ diarization_segments = <<>>
        /\ refined = <<>> /\ subtitle = <<>>
        /\ Len(progress) <= 1

\* process has raised on a video without audio stream
C25_Witness ==
    /\ phase = "raised"
    /\ video.file = "no audio stream"
    /\ video.segs = 2
    /\ Len(log) = 1
    /\ progress = <<10>>

(***************************************************************************)
(* The halves of a split segment (SpecRefine)                              *)
(***************************************************************************)
\* number of blanks in t
Blanks(t) == Cardinality({k \in 1..Len(t) : t[k] = " "})

\* no two blanks of t are next to each other
SingleSpaced(t) == \A k \in 1..(Len(t) - 1) : ~(t[k] = " " /\ t[k + 1] = " ")

\* C31: when a segment whose trimmed text has k words, one blank between
\* neighbours, is split, the first half holds the first floor(k/2) words and
\* the second half the others: neither half is empty, the first has no
\* more words than the second, and first, a blank, second is the trimmed
\* text
C31_HalvesByWords ==
    WasRefined =>
        \A i \in 1..Len(segments) :
            (MustSplit(segments[i]) /\ SingleSpaced(Strip(segments[i].text))) =>
                LET t      == Strip(segments[i].text)
                    k      == Blanks(t) + 1
                    first  == refined[Before(i - 1) + 1].text
                    second == refined[Before(i - 1) + 2].text
                IN  /\ first \o <<" ">> \o second = t
                    /\ Blanks(first) + 1 = k \div 2
                    /\ Blanks(second) + 1 = k - (k \div 2)
                    /\ first # <<>> /\ second # <<>>
                    /\ first[Len(first)] # " " /\ second[1] # " "
                    /\ Blanks(first) <= Blanks(second)

\* five words over a tenth of a second were split into two and three
C31_Witness ==
    /\ WasRefined /\ Len(segments) = 1 /\ Len(refined) = 2
    /\ segments[1].text = <<"a"," ","b"," ","c","c"," ","d"," ","e">>
    /\ refined[1].text = <<"a"," ","b">>
    /\ refined[2].text = <<"c","c"," ","d"," ","e">>

\* C32: the time at which a segment is split is its start plus its duration
\* times the number of characters of the first half over the number of
\* characters of the trimmed text, which counts the blank between the
\* halves as well
C32_SplitTimeByCharacters ==
    WasRefined =>
        \A i \in 1..Len(segments) :
            MustSplit(segments[i]) =>
                LET t      == Strip(segments[i].text)
                    first  == refined[Before(i - 1) + 1]
                    second == refined[Before(i - 1) + 2]
                    dur    == RatSub(segments[i].end, segments[i].start)
                IN  /\ Len(t) = Len(first.text) + 1 + Len(second.text)
                    /\ first.end =
                          RatAdd(segments[i].start,
                                 RatMul(dur, Rat(Len(first.text), Len(t))))
                    /\ second.start = first.end

\* five words, ten characters, over 0 .. 0.1 s: the first two words have
\* three characters and the split is at 0.03 s, not at two fifths
C32_Witness ==
    /\ WasRefined /\ Len(segments) = 1 /\ Len(refined) = 2
    /\ segments[1].text = <<"a"," ","b"," ","c","c"," ","d"," ","e">>
    /\ segments[1].start = Rat(0, 1) /\ segments[1].end = Rat(1, 10)
    /\ refined[1].end = Rat(3, 100)
    /\ refined[2].start = Rat(3, 100)

\* ---------------------------------------------------------------------
\* translate on replies that echo the speaker label

StripSegs == 2

\* replies of a completion to a segment of speaker A: the label echoed with
\* and without a colon, with white space before the colon, after and before
\* an output label, twice, and the label of another speaker
StripReplies ==
    { ReplyPlain,
      <<"[","A","]"," ","o","k">>,
      <<"[","A","]",":"," ","o","k">>,
      <<"[","A","]"," ",":"," ","o","k">>,
      <<"[","A","]"," ",":",")"," ","o","k">>,
      <<"O","u","t","p","u","t",":"," ","[","A","]",":"," ","o","k">>,
      <<"[","A","]"," ","O","u","t","p","u","t",":"," ","o","k">>,
      <<"[","A","]","[","A","]"," ","o","k">>,
      <<"[","B","]",":"," ","o","k">> }

InitStrip ==
    /\ use_local = FALSE
    /\ stage = "translate"
    /\ segments = InvocationInput(StripSegs)
    /\ InitInvocation(StripSegs)
    /\ NoPipeline

NextStrip ==
    \/ Submit
    \/ Return
    \/ \E i \in Tasks : Start(i)
    \/ \E i \in Tasks : \E r \in StripReplies : CallOk(i, r)

SpecStrip == InitStrip /\ [][NextStrip]_vars

\* the removal the sentence describes: the leading "[s]" and a colon that
\* follows it immediately
StripLabelAndColon(text, speaker) ==
    LET tag == <<"[">> \o speaker \o <<"]">>
    IN  IF StartsWith(text, tag)
        THEN LET t == Drop(text, Len(tag))
             IN  IF StartsWith(t, <<":">>) THEN Drop(t, 1) ELSE t
        ELSE text

StoredFor(segment, reply) ==
    LET first == Only({_clean_translation(x) : x \in {reply}})
        speaker == Get(segment, "speaker", NoneVal)
        stripped == IF Truthy(speaker) THEN StripLabelAndColon(first, speaker)
                    ELSE first
    IN  Only({_clean_translation(x) : x \in {stripped}})

Answered(i) == pc[i] = "done" /\ IsFilled(results[i]) /\ ret[i] \in StripReplies

\* C33: after a successful completion the stored text is
\* clean(strip(clean(reply))), strip removing the leading "[s]" and a colon
\* immediately following it; without speaker it is clean(clean(reply))
C33_StoredIsCleanStripClean ==
    \A i \in Tasks :
        Answered(i) => results[i].text = StoredFor(segments[i], ret[i])

\* ---------------------------------------------------------------------
\* the timeline of a list of segments

Timed(list) == \A i \in 1..Len(list) : RatLt(list[i].start, list[i].end)

SortedByStart(list) ==
    \A i \in 1..Len(list) : \A j \in i..Len(list) :
        RatLe(list[i].start, list[j].start)

NoOverlap(list) ==
    \A i \in 1..Len(list) - 1 : RatLe(list[i].end, list[i + 1].start)

\* the sum of the durations
RECURSIVE TotalTime(_)
TotalTime(list) ==
    IF list = <<>> THEN Rat(0, 1)
    ELSE RatAdd(RatSub(Head(list).end, Head(list).start), TotalTime(Tail(list)))

\* C34: refine_segments preserves the timeline: from segments that each end
\* after they start, are sorted by start and do not overlap it makes a list
\* that is sorted by start, does not overlap and covers the same total time
C34_TimelinePreserved ==
    (WasRefined /\ Timed(segments) /\ SortedByStart(segments) /\ NoOverlap(segments))
        => /\ SortedByStart(refined)
           /\ NoOverlap(refined)
           /\ TotalTime(refined) = TotalTime(segments)

\* two well-ordered segments, both split
C34_Witness ==
    /\ WasRefined
    /\ Len(segments) = 2 /\ Len(refined) = 4
    /\ Timed(segments) /\ SortedByStart(segments) /\ NoOverlap(segments)
    /\ RatLt(refined[1].end, segments[1].end)
    /\ RatLt(segments[2].start, refined[4].start)

\* ---------------------------------------------------------------------
\* generate_ass on captions that start within milliseconds of a full minute

AssTimeSegs == 2

\* full minutes, in seconds: the first, the first hour, the minute after it
MinuteMarks == {60, 3600, 3660}

\* milliseconds before a full minute; 5 is left out, where the hundredth a
\* binary float rounds to is not the one of the decimal tie
MilliBelow == {0, 1, 2, 3, 4, 6, 10}

MilliStarts ==
    {Rat(0, 1)} \cup {Rat(1000 * m - b, 1000) : m \in MinuteMarks, b \in MilliBelow}

InitAssTime ==
    \E n \in 0..AssTimeSegs : \E t \in MilliStarts : \E sp \in SpeakerChoices :
        FellBackOn([k \in 1..n |-> Caption(t, k, sp)])

NextAssTime ==
    \/ Refine
    \/ EncodeAss

SpecAssTime == InitAssTime /\ [][NextAssTime]_vars

\* the fields of a rendered H:MM:SS.cc: MM in 00..59 and SS.cc, in
\* hundredths, from 00.00 to 59.99
AssFieldsInRange(time) ==
    /\ time.hours >= 0
    /\ time.minutes \in 0..59
    /\ time.secs \in 0..5999

\* C35: _seconds_to_ass_time renders every non-negative time with MM in
\* 00..59, SS in 00..59 and cc in 00..99; the seconds never read 60.00, also
\* within 5 ms below a full minute
C35_AssTimeFieldsInRange ==
    IsAss => \A k \in 1..Len(subtitle) :
                /\ AssFieldsInRange(subtitle[k].start)
                /\ AssFieldsInRange(subtitle[k].end)

\* ---------------------------------------------------------------------
\* the reports and the clean-up of a run that may fail

Reported(f) == \E k \in 1..Len(progress) : progress[k] = f

Increasing(p) == \A k \in 1..Len(p) - 1 : p[k] < p[k + 1]

SubtitleDelivered == "srt" \in files /\ (burn_subtitles => "burned" \in files)

\* C36: the fractions reported within a run increase strictly from call to
\* call and are among 0.1, 0.2, 0.4, 0.5, 0.6, 0.7, 0.75, 0.8, 0.9, 1.0; 1.0
\* is reported only once the subtitle file is written and, with burn-in,
\* the burn has finished; a run that fails never reports 1.0
C36_ProgressIncreases ==
    /\ [](Increasing(progress))
    /\ [](\A k \in 1..Len(progress) :
            progress[k] \in {10, 20, 40, 50, 60, 70, 75, 80, 90, 100})
    /\ [][(progress' # progress /\ progress'[Len(progress')] = 100)
            => SubtitleDelivered]_vars
    /\ [](Reported(100) => SubtitleDelivered /\ phase = "finished")
    /\ [](phase = "raised" => ~Reported(100))

\* a finished run with every option, and burn-in done before the last report
C36_Witness ==
    /\ phase = "finished"
    /\ progress = <<10, 20, 40, 50, 60, 70, 75, 80, 90, 100>>
    /\ "burned" \in files

\* process has handed control back to its caller
HandedBack == phase \in {"finished", "raised"}

\* extract_audio has returned
Extracted == \E k \in 1..Len(log) : log[k].stage = "extract"

\* the stage process had last announced
LastAnnounced ==
    CHOOSE s \in TryStages : FractionOf(s) = progress[Len(progress)]

\* C37: once extract_audio has succeeded the audio file is gone when process
\* hands control back, after a successful run and after a raise of any stage
\* from transcription on, and then the caller gets the exception of that
\* stage
C37_AudioRemovedOnEveryPath ==
    (HandedBack /\ Extracted) =>
        /\ "audio" \notin files
        /\ (phase = "finished" => error = NoError)
        /\ (phase = "raised" => error = LastAnnounced)

\* the burn raised after the subtitle file was written
C37_Witness ==
    /\ phase = "raised"
    /\ Extracted
    /\ error = "burn"
    /\ "srt" \in files
    /\ "audio" \notin files

\* ---------------------------------------------------------------------
\* the event stream of a request

IsEvent(x) == "status" \in DOMAIN x

Terminal(x) == IsEvent(x) /\ x.status \in {"completed", "error"}

\* zero or more progress events, one terminal event, the sentinel last
WellFormed(q) ==
    /\ Len(q) >= 2
    /\ q[Len(q)] = Sentinel
    /\ Terminal(q[Len(q) - 1])
    /\ \A k \in 1..Len(q) - 2 : IsEvent(q[k]) /\ q[k].status = "processing"

\* C38: run_process enqueues zero or more progress events, then exactly one
\* terminal event (completed or error), then the sentinel as the last item;
\* event_generator yields every queued event in the order of the puts and
\* eventually ends, whether process returns or raises; and the job entry
\* ends as completed or error
C38_StreamEndsWithTerminalAndSentinel ==
    /\ [](worker = "done" => WellFormed(Queue))
    /\ [](worker # "done" => \A k \in 1..Len(Queue) : Queue[k] # Sentinel)
    /\ [](IsPrefix(yielded, Queue))
    /\ [](gen = "ended" => worker = "done" /\ yielded \o <<Sentinel>> = Queue)
    /\ <>[](gen = "ended" /\ job \in {"completed", "error"})
    /\ [](worker = "done" => job = Queue[Len(Queue) - 1].status)

\* the transcription raised: three progress events and the error event were
\* yielded before the generator ended
C38_Witness ==
    /\ gen = "ended"
    /\ job = "error"
    /\ error = "transcribe"
    /\ Len(yielded) = 4
    /\ yielded[4] = ErrorEvent("transcribe")
    /\ "upload" \notin files

====
